---------------------------- MODULE Spec2Model ----------------------------
(***************************************************************************)
(* A model of the HTC Vive controller tracker: the sender (main.py), the   *)
(* terminal receiver (vive_receiver3.py), the example receiver             *)
(* (examples/custom_receiver.py) and the matplotlib visualizer             *)
(* (vive_matplotlib_visualizer.py).                                        *)
(*                                                                         *)
(* Conventions.                                                            *)
(*  - A Python dict / JSON object is a TLA+ function whose domain is the   *)
(*    set of its keys; `k in d` is k \in DOMAIN d, and the empty dict is   *)
(*    EmptyDict.                                                           *)
(*  - A value whose Python type the code tests (isinstance, truthiness of  *)
(*    a bool-or-dict) carries a tag: JBool(b), JDict(d), JNum(n).          *)
(*  - A 64-bit button mask is the set of its set bit positions, so that    *)
(*    (mask & (1 << id)) != 0 is id \in mask (bits 32 and 33 do not fit    *)
(*    the model checker's integers).                                       *)
(*  - Lengths are integers; analog axis values are tenths (0.5 is 5).      *)
(*    Where axis limits are computed, coordinates are tenths of a metre    *)
(*    and the limits are twentieths, so that halves stay integers.         *)
(*  - Angles are whole degrees; the sampled rotation matrices have         *)
(*    entries in {-1, 0, 1}. Sines and cosines are fixed-point numbers in  *)
(*    units of 1/10000, and so are the entries of a matrix built from      *)
(*    them; the angles taken from a matrix depend on ratios of its entries *)
(*    only, so either unit serves.                                         *)
(***************************************************************************)
EXTENDS Integers, Sequences, FiniteSets, TLC

VARIABLES
  \* ---- sender (main.py, get_controller_info)
  spc,             \* position of the sender in get_controller_info
  target_ip,       \* argument target_ip ("None" or an address)
  target_port,     \* argument target_port (0 or a port number)
  udp_socket,      \* "unbound" | "None" | "open" | "closed"
  vr,              \* the SDK: "uninit" | "init" | "shutdown"
  controllers,     \* hand -> TRUE iff a device index was found for it
  controller_data, \* the snapshot dict of the current iteration
  iter,            \* number of the current loop iteration (the clock)
  sdk,             \* what the SDK returned to this iteration, per hand
  sendAttempts,    \* sendto calls made in this iteration
  sentCount,       \* datagrams that left in this iteration
  sendError,       \* TRUE iff "Error sending data" was printed in this iteration
  wire,            \* the last datagram the sender transmitted
  \* ---- terminal receiver (vive_receiver3.py)
  rpc,             \* "recv" while the loop runs, "closed" after it ended
  display_mode,    \* "simple" | "full" | "raw"
  rx,              \* the datagram of the last recvfrom
  shown,           \* what the last decoded snapshot made the display print
  \* ---- visualizer (vive_matplotlib_visualizer.py, ViveControllerVisualizer)
  latest_data,     \* self.latest_data: the last document json.loads returned
  ctl,             \* hand -> the fields self.<hand>_tracked, _position, _rotation,
                   \*   _buttons, _trigger_pressed, _trail_x, _trail_y, _trail_z
  scale,           \* self.min_x, max_x, min_y, max_y, min_z, max_z
  consecutive_errors, \* the local counter of receive_data
  socket_error,    \* self.socket_error
  last_update_time,\* self.last_update_time: a clock that ticks per applied snapshot
  history,         \* hand -> the tracked flag and position of every entry received
  \* ---- example receiver (examples/custom_receiver.py, ViveDataReceiver)
  cr_mode,         \* --mode: "text" | "plot"
  cr_sock,         \* "open" | "closed"
  cr_latest_data,  \* self.latest_data
  position_history,\* self.position_history: hand -> [x, y, z] lists
  cr_last,         \* how the last call of update ended
  cr_history,      \* hand -> the tracked flag and position of every entry received
  \* ---- visualizer: the receiver thread and the main thread
  running,         \* self.running
  sock,            \* self.sock: "None" | "bound" | "unbound" | "closed"
  socket_lock,     \* holder of self.socket_lock: "free" | "receiver" | "main"
  tpc,             \* position of the receiver thread in receive_data
  mpc,             \* position of the main thread: "show" | "sleep" | "lock" | "close" | "done"
  pending,         \* what the last recvfrom or initialize_socket of the thread returned
  head_error,      \* the value of socket_error the current iteration read at its head
  fail_streak,     \* failed receive calls since the last successful one
  \* ---- the two rotation conversions (main.py and the visualizer)
  epc,             \* "off" | "angles" | "matrix" | "euler"
  euler_angles,    \* the argument of euler_to_rotation_matrix: <<roll, pitch, yaw>>
  R,               \* the matrix euler_to_rotation_matrix returned
  extracted,       \* what extract_rotation_euler returned for R
  \* ---- visualizer: the display and the steps of update_controller_data
  auto_scale,      \* self.auto_scale
  limits,          \* the axis limits the last update_plot set
  observed,        \* the fields of the hands the last display call read
  upc,             \* position of the receiver thread in update_controller_data
  whole            \* hand -> the displayed fields of the hand after each snapshot
                   \*   received so far was (or will be) applied in full

senderVars == <<spc, target_ip, target_port, udp_socket, vr, controllers,
                controller_data, iter, sdk, sendAttempts, sentCount, sendError, wire>>
receiverVars == <<rpc, display_mode, rx, shown>>
visVars == <<latest_data, ctl, scale, consecutive_errors, socket_error,
             last_update_time, history>>
customVars == <<cr_mode, cr_sock, cr_latest_data, position_history, cr_last, cr_history>>
threadVars == <<running, sock, socket_lock, tpc, mpc, pending, head_error, fail_streak>>
eulerVars == <<epc, euler_angles, R, extracted>>
displayVars == <<auto_scale, limits, observed, upc, whole>>
vars == <<senderVars, receiverVars, visVars, customVars, threadVars, eulerVars, displayVars>>
nonSenderVars == <<receiverVars, visVars, customVars, threadVars, eulerVars, displayVars>>
nonReceiverVars == <<senderVars, visVars, customVars, threadVars, eulerVars, displayVars>>
nonVisVars == <<senderVars, receiverVars, customVars, threadVars, eulerVars, displayVars>>
nonCustomVars == <<senderVars, receiverVars, visVars, threadVars, eulerVars, displayVars>>
otherPrograms == <<senderVars, receiverVars, customVars, eulerVars, displayVars>>
nonEulerVars == <<senderVars, receiverVars, visVars, customVars, threadVars, displayVars>>
nonDisplayVars == <<senderVars, receiverVars, customVars, threadVars, eulerVars>>

-----------------------------------------------------------------------------
(* Bounds of the model *)

MaxIter == 2       \* loop iterations of the sender that are explored
MaxPackets == 3    \* snapshots a receiver applies
max_trail_points == 2  \* the trail length (--trail-length, 50 by default)
max_history == 2   \* the history length of the example receiver (100 in the code)

-----------------------------------------------------------------------------
(* Constants of the program *)

max_consecutive_errors == 5

-----------------------------------------------------------------------------
(* JSON values *)

EmptyDict == [k \in {} |-> TRUE]
JBool(b) == [t |-> "bool", v |-> b]
JDict(d) == [t |-> "dict", v |-> d]
JNum(n)  == [t |-> "num", v |-> n]

\* Python truthiness of a tagged value: `if value`
Truthy(val) ==
  CASE val.t = "bool" -> val.v
    [] val.t = "dict" -> DOMAIN val.v # {}
    [] val.t = "num"  -> val.v # 0

\* dict.get(key, default) on a dict of plain values
Get(d, key, default) == IF key \in DOMAIN d THEN d[key] ELSE default

Hands == {"left", "right"}

-----------------------------------------------------------------------------
(* The SDK's button identifiers (the k_EButton constants of openvr) *)

k_EButton_System == 0
k_EButton_ApplicationMenu == 1
k_EButton_Grip == 2
k_EButton_DPad_Left == 3
k_EButton_DPad_Up == 4
k_EButton_DPad_Right == 5
k_EButton_DPad_Down == 6
k_EButton_A == 7
k_EButton_SteamVR_Touchpad == 32
k_EButton_SteamVR_Trigger == 33

\* (mask & (1 << button_id)) != 0
Bit(mask, button_id) == button_id \in mask

\* get_button_names(): button id -> display name
get_button_names ==
  (k_EButton_System :> "System") @@
  (k_EButton_ApplicationMenu :> "Menu") @@
  (k_EButton_Grip :> "Grip") @@
  (k_EButton_DPad_Left :> "Trackpad Left") @@
  (k_EButton_DPad_Up :> "Trackpad Up") @@
  (k_EButton_DPad_Right :> "Trackpad Right") @@
  (k_EButton_DPad_Down :> "Trackpad Down") @@
  (k_EButton_A :> "A Button") @@
  (k_EButton_SteamVR_Touchpad :> "Trackpad Touch") @@
  (k_EButton_SteamVR_Trigger :> "Trigger")

\* button_name.lower().replace(" ", "_")
button_key(button_name) ==
  CASE button_name = "System" -> "system"
    [] button_name = "Menu" -> "menu"
    [] button_name = "Grip" -> "grip"
    [] button_name = "Trackpad Left" -> "trackpad_left"
    [] button_name = "Trackpad Up" -> "trackpad_up"
    [] button_name = "Trackpad Right" -> "trackpad_right"
    [] button_name = "Trackpad Down" -> "trackpad_down"
    [] button_name = "A Button" -> "a_button"
    [] button_name = "Trackpad Touch" -> "trackpad_touch"
    [] button_name = "Trigger" -> "trigger"

-----------------------------------------------------------------------------
(* Rotation matrix to Euler angles (main.py) *)

\* math.sqrt on the perfect squares the sampled matrices produce
Abs(n) == IF n < 0 THEN -n ELSE n

\* the sines of 0, 1, ..., 90 degrees in units of 1/10000
SinTable ==
  <<0, 175, 349, 523, 698, 872, 1045, 1219, 1392, 1564,
     1736, 1908, 2079, 2250, 2419, 2588, 2756, 2924, 3090, 3256,
     3420, 3584, 3746, 3907, 4067, 4226, 4384, 4540, 4695, 4848,
     5000, 5150, 5299, 5446, 5592, 5736, 5878, 6018, 6157, 6293,
     6428, 6561, 6691, 6820, 6947, 7071, 7193, 7314, 7431, 7547,
     7660, 7771, 7880, 7986, 8090, 8192, 8290, 8387, 8480, 8572,
     8660, 8746, 8829, 8910, 8988, 9063, 9135, 9205, 9272, 9336,
     9397, 9455, 9511, 9563, 9613, 9659, 9703, 9744, 9781, 9816,
     9848, 9877, 9903, 9925, 9945, 9962, 9976, 9986, 9994, 9998,
     10000>>

\* math.sin / np.sin of an angle in whole degrees, in units of 1/10000
Sin(a) ==
  LET b == a % 360
  IN  IF b <= 90 THEN SinTable[b + 1]
      ELSE IF b <= 180 THEN SinTable[180 - b + 1]
      ELSE IF b <= 270 THEN -SinTable[b - 180 + 1]
      ELSE -SinTable[360 - b + 1]

\* math.cos / np.cos of an angle in whole degrees, in units of 1/10000
Cos(a) == Sin(a + 90)

RECURSIVE SqrtFloor(_, _, _)
\* the largest r in lo..hi with r * r <= n
SqrtFloor(n, lo, hi) ==
  IF lo = hi THEN lo
  ELSE LET mid == (lo + hi + 1) \div 2
       IN  IF mid * mid <= n THEN SqrtFloor(n, mid, hi) ELSE SqrtFloor(n, lo, mid - 1)

\* math.sqrt, rounded to the nearest integer of the unit
Sqrt(n) ==
  LET r == SqrtFloor(n, 0, IF n < 46340 THEN n ELSE 46340)
  IN  IF (r + 1) * (r + 1) - n < n - r * r THEN r + 1 ELSE r

RECURSIVE AcuteFloor(_, _, _, _)
\* for y, x >= 0: the largest whole angle in lo..hi that is not beyond the
\* direction of (x, y)
AcuteFloor(y, x, lo, hi) ==
  IF lo = hi THEN lo
  ELSE LET mid == (lo + hi + 1) \div 2
       IN  IF y * Cos(mid) >= x * Sin(mid) THEN AcuteFloor(y, x, mid, hi)
           ELSE AcuteFloor(y, x, lo, mid - 1)

\* for y, x > 0: the angle of the direction of (x, y), rounded to the
\* nearest whole degree
AcuteDeg(y, x) ==
  LET a == AcuteFloor(y, x, 0, 90)
      Off(b) == Abs(y * Cos(b) - x * Sin(b))
  IN  IF a < 90 /\ Off(a + 1) < Off(a) THEN a + 1 ELSE a

\* math.degrees(math.atan2(y, x)), rounded to the nearest whole degree
Atan2Deg(y, x) ==
  CASE y = 0 /\ x >= 0 -> 0
    [] y = 0 /\ x < 0 -> 180
    [] y > 0 /\ x = 0 -> 90
    [] y < 0 /\ x = 0 -> -90
    [] y > 0 /\ x > 0 -> AcuteDeg(y, x)
    [] y > 0 /\ x < 0 -> 180 - AcuteDeg(y, -x)
    [] y < 0 /\ x > 0 -> -AcuteDeg(-y, x)
    [] y < 0 /\ x < 0 -> AcuteDeg(-y, -x) - 180

\* get_pose_matrix: the 3x4 device matrix with the row [0, 0, 0, 1] added
get_pose_matrix(pose) ==
  <<pose.mDeviceToAbsoluteTracking[1], pose.mDeviceToAbsoluteTracking[2],
    pose.mDeviceToAbsoluteTracking[3], <<0, 0, 0, 1>> >>

\* extract_rotation_euler: (roll, pitch, yaw); matrix[i][j] is matrix[i+1][j+1]
extract_rotation_euler(matrix) ==
  LET pitch == Atan2Deg(-matrix[3][1],
                        Sqrt(matrix[1][1] * matrix[1][1] + matrix[2][1] * matrix[2][1]))
      yaw   == Atan2Deg(matrix[2][1], matrix[1][1])
      roll  == Atan2Deg(matrix[3][2], matrix[3][3])
  IN  <<roll, pitch, yaw>>

-----------------------------------------------------------------------------
(* What the SDK can return to one poll of one controller *)

Identity3x4(px, py, pz) == << <<1, 0, 0, px>>, <<0, 1, 0, py>>, <<0, 0, 1, pz>> >>
Yaw90(px, py, pz)       == << <<0, -1, 0, px>>, <<1, 0, 0, py>>, <<0, 0, 1, pz>> >>
Roll180(px, py, pz)     == << <<1, 0, 0, px>>, <<0, -1, 0, py>>, <<0, 0, -1, pz>> >>

Pose(valid, m) ==
  [bPoseIsValid |-> valid, bDeviceIsConnected |-> valid, mDeviceToAbsoluteTracking |-> m]

Axis(x, y) == [x |-> x, y |-> y]

\* VRControllerState_t: the two masks and the axis array (rAxis[1] is the trigger)
ControllerState(pressed, touched, trigger, padx, pady) ==
  [ulButtonPressed |-> pressed, ulButtonTouched |-> touched,
   rAxis |-> <<Axis(padx, pady), Axis(trigger, 0), Axis(0, 0), Axis(0, 0), Axis(0, 0)>>]

NoState == ControllerState({}, {}, 0, 0, 0)

\* one return of getDeviceToAbsoluteTrackingPose (for the device) and of
\* getControllerState (its result flag and state)
PollSamples ==
  { [pose |-> Pose(FALSE, Identity3x4(0, 0, 0)), result |-> FALSE, state |-> NoState],
    [pose |-> Pose(TRUE, Identity3x4(1, 2, -1)), result |-> FALSE, state |-> NoState],
    [pose |-> Pose(TRUE, Yaw90(-2, 0, 3)), result |-> TRUE, state |-> NoState],
    [pose |-> Pose(TRUE, Roll180(0, 1, 0)), result |-> TRUE,
     state |-> ControllerState({k_EButton_ApplicationMenu, k_EButton_SteamVR_Trigger},
                               {k_EButton_SteamVR_Touchpad, k_EButton_SteamVR_Trigger}, 3, -5, 0)],
    [pose |-> Pose(TRUE, Identity3x4(1, 2, -1)), result |-> TRUE,
     state |-> ControllerState({k_EButton_System, k_EButton_Grip, k_EButton_SteamVR_Touchpad},
                               {k_EButton_SteamVR_Touchpad}, 10, 2, 7)] }

-----------------------------------------------------------------------------
(* The snapshot entry of one controller (main.py, lines 114-231) *)

\* "Method 1": the four main buttons as booleans, the trackpad as a dict
Method1Buttons(state) ==
  [system   |-> JBool(Bit(state.ulButtonPressed, k_EButton_System)),
   menu     |-> JBool(Bit(state.ulButtonPressed, k_EButton_ApplicationMenu)),
   grip     |-> JBool(Bit(state.ulButtonPressed, k_EButton_Grip)),
   trigger  |-> JBool(Bit(state.ulButtonPressed, k_EButton_SteamVR_Trigger)),
   trackpad |-> JDict([pressed |-> Bit(state.ulButtonPressed, k_EButton_SteamVR_Touchpad),
                       touched |-> Bit(state.ulButtonTouched, k_EButton_SteamVR_Touchpad)])]

\* "Method 2": one {"pressed", "touched"} dict per entry of get_button_names
Method2Buttons(state) ==
  [key \in {button_key(get_button_names[id]) : id \in DOMAIN get_button_names} |->
     LET button_id == CHOOSE id \in DOMAIN get_button_names :
                        button_key(get_button_names[id]) = key
     IN  JDict([pressed |-> Bit(state.ulButtonPressed, button_id),
                touched |-> Bit(state.ulButtonTouched, button_id)])]

\* the buttons dict after both methods have stored into it: an assignment of
\* Method 2 replaces what Method 1 stored under the same key
SenderButtons(state) == Method2Buttons(state) @@ Method1Buttons(state)

SenderAnalog(state) ==
  LET trigger_value == IF Len(state.rAxis) > 1 THEN state.rAxis[2].x ELSE 0
      withTrigger   == [trigger |-> JNum(trigger_value)]
  IN  IF Len(state.rAxis) > 0
      THEN [trackpad |-> JDict([x |-> state.rAxis[1].x, y |-> state.rAxis[1].y])] @@ withTrigger
      ELSE withTrigger

\* ControllerEntry without the initial dictionary of lines 115-121
ControllerEntry_NoInitialDict(pose, result, state) ==
  LET m   == pose.mDeviceToAbsoluteTracking
      rpy == extract_rotation_euler(get_pose_matrix(pose))
  IN  IF ~pose.bPoseIsValid THEN [tracked |-> FALSE]
      ELSE [tracked  |-> TRUE,
            position |-> [x |-> m[1][4], y |-> m[2][4], z |-> m[3][4]],
            rotation |-> [roll |-> rpy[1], pitch |-> rpy[2], yaw |-> rpy[3]]]

\* ControllerEntry with the position stored before the validity test
ControllerEntry_PositionAlways(pose, result, state) ==
  LET m == pose.mDeviceToAbsoluteTracking
      rpy == extract_rotation_euler(get_pose_matrix(pose))
  IN  [tracked  |-> pose.bPoseIsValid,
       position |-> [x |-> m[1][4], y |-> m[2][4], z |-> m[3][4]],
       rotation |-> IF pose.bPoseIsValid
                    THEN [roll |-> rpy[1], pitch |-> rpy[2], yaw |-> rpy[3]] ELSE EmptyDict,
       buttons  |-> IF pose.bPoseIsValid /\ result THEN Method2Buttons(state) ELSE EmptyDict,
       analog   |-> EmptyDict]

\* controller_data[hand] at the end of the loop body for one detected hand
ControllerEntry(pose, result, state) ==
  LET untracked == [tracked |-> FALSE, position |-> EmptyDict, rotation |-> EmptyDict,
                    buttons |-> EmptyDict, analog |-> EmptyDict]
      m   == pose.mDeviceToAbsoluteTracking
      rpy == extract_rotation_euler(get_pose_matrix(pose))
      tracked == [tracked  |-> TRUE,
                  position |-> [x |-> m[1][4], y |-> m[2][4], z |-> m[3][4]],
                  rotation |-> [roll |-> rpy[1], pitch |-> rpy[2], yaw |-> rpy[3]],
                  buttons  |-> IF result THEN SenderButtons(state) ELSE EmptyDict,
                  analog   |-> IF result THEN SenderAnalog(state) ELSE EmptyDict]
  IN  IF ~pose.bPoseIsValid THEN untracked
      ELSE IF result
           THEN [raw_buttons |-> [pressed |-> state.ulButtonPressed,
                                  touched |-> state.ulButtonTouched]] @@ tracked
           ELSE tracked

\* what the SDK reported for a hand in an iteration (kept beside the snapshot)
SdkRecord(polled, inp) ==
  [polled  |-> polled,
   valid   |-> polled /\ inp.pose.bPoseIsValid,
   result  |-> polled /\ inp.pose.bPoseIsValid /\ inp.result,
   pressed |-> IF polled /\ inp.pose.bPoseIsValid /\ inp.result
               THEN inp.state.ulButtonPressed ELSE {},
   touched |-> IF polled /\ inp.pose.bPoseIsValid /\ inp.result
               THEN inp.state.ulButtonTouched ELSE {}]

NotPolled == [h \in Hands |-> SdkRecord(FALSE, CHOOSE inp \in PollSamples : ~inp.pose.bPoseIsValid)]

-----------------------------------------------------------------------------
(* Datagrams *)

NoDatagram == [fmt |-> "none"]

\* json.dumps(obj).encode(): UTF-8 JSON text of an object.  The round trip
\* through json.loads(data.decode()) returns str keys, bools, numbers and
\* nested dicts as they were, so the text is represented by the object.
JsonObject(doc) == [fmt |-> "object", doc |-> doc]

\* datagrams that are not a snapshot object
BadUtf8 == [fmt |-> "badutf8"]       \* bytes that are not valid UTF-8
BadJson == [fmt |-> "badjson"]       \* text that is not JSON
JsonScalar == [fmt |-> "scalar", doc |-> JNum(5)]   \* valid JSON, not an object

-----------------------------------------------------------------------------
(* The sender: get_controller_info (main.py, lines 49-272) *)

\* `target_ip and target_port` (lines 57, 99, 241)
TargetConfigured == target_ip # "None" /\ target_port # 0

\* openvr.init raises: control passes to `except Exception` and then to
\* `finally`, before udp_socket was ever assigned
SenderInitFails ==
  /\ spc = "start"
  /\ spc' = "finally"
  /\ UNCHANGED <<target_ip, target_port, udp_socket, vr, controllers, controller_data,
                 iter, sdk, sendAttempts, sentCount, sendError, wire, nonSenderVars>>

\* lines 53-87 without an exception: the socket is created when a target is
\* given, and the controllers are identified once
SenderSetup ==
  /\ spc = "start"
  /\ vr' = "init"
  /\ udp_socket' = IF TargetConfigured THEN "open" ELSE "None"
  /\ \E found \in [Hands -> BOOLEAN] : controllers' = found
  /\ spc' = "poll"
  /\ iter' = 1
  /\ UNCHANGED <<target_ip, target_port, controller_data, sdk, sendAttempts, sentCount,
                 sendError, wire, nonSenderVars>>

\* lines 53-87 with an exception after udp_socket was assigned (socket
\* creation or a query of the tracking system fails)
SenderSetupFails ==
  /\ spc = "start"
  /\ vr' = "init"
  /\ \E s \in (IF TargetConfigured THEN {"None", "open"} ELSE {"None"}) : udp_socket' = s
  /\ spc' = "finally"
  /\ UNCHANGED <<target_ip, target_port, controllers, controller_data, iter, sdk,
                 sendAttempts, sentCount, sendError, wire, nonSenderVars>>

\* lines 103-238: controller_data = {} and one entry per detected hand
PollControllers ==
  /\ spc = "poll"
  /\ \E inp \in [Hands -> PollSamples] :
       /\ controller_data' =
            [h \in {hand \in Hands : controllers[hand]} |->
               ControllerEntry(inp[h].pose, inp[h].result, inp[h].state)]
       /\ sdk' = [h \in Hands |-> SdkRecord(controllers[h], inp[h])]
  /\ spc' = "send"
  /\ UNCHANGED <<target_ip, target_port, udp_socket, vr, controllers, iter,
                 sendAttempts, sentCount, sendError, wire, nonSenderVars>>

\* a call of the SDK raises inside the loop body: `except Exception`, `finally`
PollRaises ==
  /\ spc = "poll"
  /\ spc' = "finally"
  /\ UNCHANGED <<target_ip, target_port, udp_socket, vr, controllers, controller_data,
                 iter, sdk, sendAttempts, sentCount, sendError, wire, nonSenderVars>>

\* SendSnapshot with a failed send ending the loop
SendSnapshot_FailureStops ==
  /\ spc = "send"
  /\ IF udp_socket = "open" /\ TargetConfigured
     THEN LET stamped == [timestamp |-> iter] @@ controller_data
          IN  /\ controller_data' = stamped
              /\ sendAttempts' = sendAttempts + 1
              /\ \E sendOk \in BOOLEAN :
                   IF sendOk
                   THEN /\ wire' = [origin |-> sdk] @@ JsonObject(stamped)
                        /\ sentCount' = sentCount + 1
                        /\ spc' = "sleep"
                        /\ UNCHANGED sendError
                   ELSE /\ sendError' = TRUE
                        /\ spc' = "finally"
                        /\ UNCHANGED <<wire, sentCount>>
     ELSE /\ spc' = "sleep"
          /\ UNCHANGED <<controller_data, sendAttempts, sentCount, sendError, wire>>
  /\ UNCHANGED <<target_ip, target_port, udp_socket, vr, controllers, iter, sdk, nonSenderVars>>

\* SendSnapshot with the JSON text made before the timestamp is stored
SendSnapshot_Unstamped ==
  /\ spc = "send"
  /\ IF udp_socket = "open" /\ TargetConfigured
     THEN /\ controller_data' = [timestamp |-> iter] @@ controller_data
          /\ sendAttempts' = sendAttempts + 1
          /\ \E sendOk \in BOOLEAN :
               IF sendOk
               THEN /\ wire' = [origin |-> sdk] @@ JsonObject(controller_data)
                    /\ sentCount' = sentCount + 1
                    /\ UNCHANGED sendError
               ELSE /\ sendError' = TRUE
                    /\ UNCHANGED <<wire, sentCount>>
     ELSE UNCHANGED <<controller_data, sendAttempts, sentCount, sendError, wire>>
  /\ spc' = "sleep"
  /\ UNCHANGED <<target_ip, target_port, udp_socket, vr, controllers, iter, sdk, nonSenderVars>>

\* lines 240-251: with a socket and a target, the timestamp is added and the
\* JSON text is handed to sendto, which sends it or raises (the error is
\* printed and the loop goes on); without them nothing is done
SendSnapshot ==
  /\ spc = "send"
  /\ IF udp_socket = "open" /\ TargetConfigured
     THEN LET stamped == [timestamp |-> iter] @@ controller_data
          IN  /\ controller_data' = stamped
              /\ sendAttempts' = sendAttempts + 1
              /\ \E sendOk \in BOOLEAN :
                   IF sendOk
                   THEN /\ wire' = [origin |-> sdk] @@ JsonObject(stamped)
                        /\ sentCount' = sentCount + 1
                        /\ UNCHANGED sendError
                   ELSE /\ sendError' = TRUE
                        /\ UNCHANGED <<wire, sentCount>>
     ELSE UNCHANGED <<controller_data, sendAttempts, sentCount, sendError, wire>>
  /\ spc' = "sleep"
  /\ UNCHANGED <<target_ip, target_port, udp_socket, vr, controllers, iter, sdk, nonSenderVars>>

\* line 256 and the return to the head of the loop
Sleep ==
  /\ spc = "sleep"
  /\ iter < MaxIter
  /\ iter' = iter + 1
  /\ sendAttempts' = 0
  /\ sentCount' = 0
  /\ sendError' = FALSE
  /\ spc' = "poll"
  /\ UNCHANGED <<target_ip, target_port, udp_socket, vr, controllers, controller_data,
                 sdk, wire, nonSenderVars>>

\* Ctrl+C inside the loop (lines 258-259)
KeyboardInterrupt ==
  /\ spc \in {"poll", "send", "sleep"}
  /\ spc' = "finally"
  /\ UNCHANGED <<target_ip, target_port, udp_socket, vr, controllers, controller_data,
                 iter, sdk, sendAttempts, sentCount, sendError, wire, nonSenderVars>>

\* lines 266-272: `if udp_socket` reads a name that was never assigned when
\* openvr.init raised, which raises UnboundLocalError before the shutdown
SenderFinally ==
  /\ spc = "finally"
  /\ IF udp_socket = "unbound"
     THEN /\ spc' = "crashed"
          /\ UNCHANGED <<udp_socket, vr>>
     ELSE /\ udp_socket' = IF udp_socket = "open" THEN "closed" ELSE udp_socket
          /\ vr' = "shutdown"
          /\ spc' = "done"
  /\ UNCHANGED <<target_ip, target_port, controllers, controller_data, iter, sdk,
                 sendAttempts, sentCount, sendError, wire, nonSenderVars>>

SenderNext ==
  \/ SenderInitFails
  \/ SenderSetup
  \/ SenderSetupFails
  \/ PollControllers
  \/ PollRaises
  \/ SendSnapshot
  \/ Sleep
  \/ KeyboardInterrupt
  \/ SenderFinally

-----------------------------------------------------------------------------
(* The terminal receiver (vive_receiver3.py) *)

MainButtons == {"system", "menu", "grip", "trigger"}

\* "PRESSED" if value else "---"
PressedIfTruthy(val) == IF Truthy(val) THEN "PRESSED" ELSE "---"

\* "PRESSED" if d.get("pressed", False) else ("TOUCHED" if d.get("touched", False) else "---")
DictStatus(d) ==
  IF Get(d, "pressed", FALSE) THEN "PRESSED"
  ELSE IF Get(d, "touched", FALSE) THEN "TOUCHED" ELSE "---"

\* display_simple: per hand, what is printed for it
display_simple(data) ==
  [hand \in Hands |->
     IF hand \notin DOMAIN data THEN [kind |-> "absent"]
     ELSE LET controller == data[hand]
              buttons == Get(controller, "buttons", EmptyDict)
          IN  IF Get(controller, "tracked", FALSE)
              THEN [kind |-> "tracked",
                    main |-> [btn \in MainButtons \cap DOMAIN buttons |->
                                PressedIfTruthy(buttons[btn])],
                    trackpad |-> IF "trackpad" \in DOMAIN buttons
                                 THEN DictStatus(buttons["trackpad"].v) ELSE "none"]
              ELSE [kind |-> "not_tracked"]]

\* display_simple calls trackpad.get: a trackpad that is not a dict raises
display_simple_raises(data) ==
  \E hand \in Hands :
    /\ hand \in DOMAIN data
    /\ Get(data[hand], "tracked", FALSE)
    /\ "trackpad" \in DOMAIN Get(data[hand], "buttons", EmptyDict)
    /\ data[hand].buttons["trackpad"].t # "dict"

\* display_full: per hand, the status printed for every button
display_full(data) ==
  [hand \in Hands |->
     IF hand \notin DOMAIN data THEN [kind |-> "absent"]
     ELSE LET controller == data[hand]
              buttons == Get(controller, "buttons", EmptyDict)
          IN  IF Get(controller, "tracked", FALSE)
              THEN [kind |-> "tracked",
                    all |-> [btn \in DOMAIN buttons |->
                               IF buttons[btn].t = "dict" THEN DictStatus(buttons[btn].v)
                               ELSE PressedIfTruthy(buttons[btn])]]
              ELSE [kind |-> "not_tracked"]]

\* a snapshot in the other encoding of the buttons (plain booleans)
BooleanSnapshot ==
  [left  |-> [tracked |-> TRUE, position |-> [x |-> 1, y |-> 0, z |-> 2],
              buttons |-> [trigger |-> JBool(TRUE), grip |-> JBool(FALSE)]],
   right |-> [tracked |-> FALSE]]

\* datagrams that reach the port from elsewhere
ForeignDatagrams == {BadUtf8, BadJson, JsonScalar, JsonObject(BooleanSnapshot)}

NothingShown == [what |-> "nothing"]

\* one iteration of the loop of receive_controller_data (lines 18-46): the
\* datagram is the sender's last one or a foreign one
ReceiveDatagram ==
  /\ rpc = "recv"
  /\ \E d \in (IF wire.fmt = "none" THEN {} ELSE {wire}) \cup ForeignDatagrams :
       /\ rx' = d
       /\ CASE d.fmt = "badutf8" ->
                 \* data.decode() raises UnicodeDecodeError, which no handler
                 \* of the loop catches: `finally` closes the socket
                 /\ rpc' = "closed"
                 /\ UNCHANGED shown
            [] d.fmt = "badjson" ->
                 \* json.JSONDecodeError is caught and reported
                 /\ shown' = [what |-> "invalid"]
                 /\ UNCHANGED rpc
            [] d.fmt = "scalar" ->
                 \* `hand in data` raises TypeError on a number; "raw" prints it
                 IF display_mode = "raw"
                 THEN shown' = [what |-> "raw"] /\ UNCHANGED rpc
                 ELSE rpc' = "closed" /\ UNCHANGED shown
            [] d.fmt = "object" ->
                 CASE display_mode = "simple" ->
                        IF display_simple_raises(d.doc)
                        THEN rpc' = "closed" /\ UNCHANGED shown
                        ELSE /\ shown' = [what |-> "simple", hands |-> display_simple(d.doc)]
                             /\ UNCHANGED rpc
                   [] display_mode = "full" ->
                        /\ shown' = [what |-> "full", hands |-> display_full(d.doc)]
                        /\ UNCHANGED rpc
                   [] display_mode = "raw" ->
                        /\ shown' = [what |-> "raw"]
                        /\ UNCHANGED rpc
  /\ UNCHANGED <<display_mode, nonReceiverVars>>

-----------------------------------------------------------------------------
(* The sender and the terminal receiver together *)

SenderInit ==
  /\ spc = "start"
  /\ target_ip \in {"None", "192.168.1.10"}
  /\ target_port \in {0, 5555}
  /\ udp_socket = "unbound"
  /\ vr = "uninit"
  /\ controllers = [h \in Hands |-> FALSE]
  /\ controller_data = EmptyDict
  /\ iter = 0
  /\ sdk = NotPolled
  /\ sendAttempts = 0
  /\ sentCount = 0
  /\ sendError = FALSE
  /\ wire = NoDatagram

ReceiverInit ==
  /\ rpc = "recv"
  /\ display_mode \in {"simple", "full", "raw"}
  /\ rx = NoDatagram
  /\ shown = NothingShown

-----------------------------------------------------------------------------
(* The visualizer: ViveControllerVisualizer (vive_matplotlib_visualizer.py) *)

TriggerThreshold == 5     \* analog trigger > 0.5, in tenths

\* __init__, lines 52-86: the fields of one hand
InitialHand ==
  [tracked |-> FALSE, position |-> <<0, 0, 0>>, rotation |-> <<0, 0, 0>>,
   buttons |-> EmptyDict, trigger_pressed |-> FALSE,
   trail_x |-> <<>>, trail_y |-> <<>>, trail_z |-> <<>>]

\* __init__, lines 92-94
InitialScale == [min_x |-> 0, max_x |-> 0, min_y |-> 0, max_y |-> 0, min_z |-> 0, max_z |-> 0]

Min(a, b) == IF a <= b THEN a ELSE b
Max(a, b) == IF a >= b THEN a ELSE b

\* DequeAppend dropping the new element when the deque is full
DequeAppend_KeepOldest(q, val, maxlen) ==
  IF Len(q) >= maxlen THEN q ELSE Append(q, val)

\* deque(maxlen=n).append(val): a full deque drops its oldest element
DequeAppend(q, val, maxlen) ==
  IF maxlen = 0 THEN q
  ELSE IF Len(q) = maxlen THEN Append(Tail(q), val)
  ELSE Append(q, val)

\* `"position" in entry` and all(k in pos for k in ["x", "y", "z"])
HasPosition(entry) ==
  "position" \in DOMAIN entry /\ {"x", "y", "z"} \subseteq DOMAIN entry.position

\* `"rotation" in entry` and all(k in rot for k in ["roll", "pitch", "yaw"])
HasRotation(entry) ==
  "rotation" \in DOMAIN entry /\ {"roll", "pitch", "yaw"} \subseteq DOMAIN entry.rotation

\* TriggerFromButtons reading only the boolean encoding
TriggerFromButtons_BoolOnly(buttons, old) ==
  IF "trigger" \in DOMAIN buttons /\ buttons["trigger"].t = "bool"
  THEN buttons["trigger"].v
  ELSE old

\* lines 307-312: the trigger state from buttons["trigger"], a bool or a dict
TriggerFromButtons(buttons, old) ==
  IF "trigger" \in DOMAIN buttons
  THEN IF buttons["trigger"].t = "bool" THEN buttons["trigger"].v
       ELSE IF buttons["trigger"].t = "dict" THEN Get(buttons["trigger"].v, "pressed", FALSE)
       ELSE old
  ELSE old

\* UpdateHand recording the position of an entry that is not tracked
UpdateHand_PositionUntracked(c, entry) ==
  LET tracked  == Get(entry, "tracked", FALSE)
      buttons  == IF "buttons" \in DOMAIN entry THEN entry.buttons ELSE c.buttons
      trig1    == IF "buttons" \in DOMAIN entry
                  THEN TriggerFromButtons(entry.buttons, c.trigger_pressed)
                  ELSE c.trigger_pressed
      accept   == HasPosition(entry)
      pos      == entry.position
      trig2    == IF tracked /\ "analog" \in DOMAIN entry /\ "trigger" \in DOMAIN entry.analog
                  THEN entry.analog["trigger"].v > TriggerThreshold
                  ELSE trig1
  IN  [tracked  |-> tracked,
       buttons  |-> buttons,
       trigger_pressed |-> trig2,
       position |-> IF accept THEN <<pos.x, pos.y, pos.z>> ELSE c.position,
       rotation |-> IF tracked /\ HasRotation(entry)
                    THEN <<entry.rotation.roll, entry.rotation.pitch, entry.rotation.yaw>>
                    ELSE c.rotation,
       trail_x  |-> IF accept THEN DequeAppend(c.trail_x, pos.x, max_trail_points) ELSE c.trail_x,
       trail_y  |-> IF accept THEN DequeAppend(c.trail_y, pos.y, max_trail_points) ELSE c.trail_y,
       trail_z  |-> IF accept THEN DequeAppend(c.trail_z, pos.z, max_trail_points) ELSE c.trail_z]

\* lines 296-346 (left) and 349-399 (right): the fields of one hand after
\* the entry of that hand was processed
UpdateHand(c, entry) ==
  LET tracked  == Get(entry, "tracked", FALSE)
      buttons  == IF "buttons" \in DOMAIN entry THEN entry.buttons ELSE c.buttons
      trig1    == IF "buttons" \in DOMAIN entry
                  THEN TriggerFromButtons(entry.buttons, c.trigger_pressed)
                  ELSE c.trigger_pressed
      accept   == tracked /\ HasPosition(entry)
      pos      == entry.position
      trig2    == IF tracked /\ "analog" \in DOMAIN entry /\ "trigger" \in DOMAIN entry.analog
                  THEN entry.analog["trigger"].v > TriggerThreshold
                  ELSE trig1
  IN  [tracked  |-> tracked,
       buttons  |-> buttons,
       trigger_pressed |-> trig2,
       position |-> IF accept THEN <<pos.x, pos.y, pos.z>> ELSE c.position,
       rotation |-> IF tracked /\ HasRotation(entry)
                    THEN <<entry.rotation.roll, entry.rotation.pitch, entry.rotation.yaw>>
                    ELSE c.rotation,
       trail_x  |-> IF accept THEN DequeAppend(c.trail_x, pos.x, max_trail_points) ELSE c.trail_x,
       trail_y  |-> IF accept THEN DequeAppend(c.trail_y, pos.y, max_trail_points) ELSE c.trail_y,
       trail_z  |-> IF accept THEN DequeAppend(c.trail_z, pos.z, max_trail_points) ELSE c.trail_z]

\* UpdateScale taking the bounds from the new position alone
UpdateScale_Overwrite(s, entry) ==
  IF Get(entry, "tracked", FALSE) /\ HasPosition(entry)
  THEN [min_x |-> entry.position.x, max_x |-> entry.position.x,
        min_y |-> entry.position.y, max_y |-> entry.position.y,
        min_z |-> entry.position.z, max_z |-> entry.position.z]
  ELSE s

\* lines 330-336 and 383-389: the bounds for the auto-scaling
UpdateScale(s, entry) ==
  IF Get(entry, "tracked", FALSE) /\ HasPosition(entry)
  THEN [min_x |-> Min(s.min_x, entry.position.x), max_x |-> Max(s.max_x, entry.position.x),
        min_y |-> Min(s.min_y, entry.position.y), max_y |-> Max(s.max_y, entry.position.y),
        min_z |-> Min(s.min_z, entry.position.z), max_z |-> Max(s.max_z, entry.position.z)]
  ELSE s

\* update_controller_data whose right-hand block assigns the trigger state
\* of the left hand
update_controller_data_SharedTrigger(doc, c, s) ==
  IF DOMAIN doc = {} THEN [ctl |-> c, scale |-> s]
  ELSE LET afterLeft == IF "left" \in DOMAIN doc THEN UpdateScale(s, doc["left"]) ELSE s
           left  == IF "left" \in DOMAIN doc THEN UpdateHand(c["left"], doc["left"]) ELSE c["left"]
           right == IF "right" \in DOMAIN doc THEN UpdateHand(c["right"], doc["right"]) ELSE c["right"]
       IN  [ctl   |-> [h \in Hands |->
                         IF h = "right" THEN [right EXCEPT !.trigger_pressed = c["right"].trigger_pressed]
                         ELSE IF "right" \in DOMAIN doc
                              THEN [left EXCEPT !.trigger_pressed = right.trigger_pressed]
                              ELSE left],
            scale |-> IF "right" \in DOMAIN doc THEN UpdateScale(afterLeft, doc["right"])
                      ELSE afterLeft]

\* update_controller_data (lines 286-399): `not self.latest_data` returns at
\* once for an empty document; the left entry is processed, then the right
update_controller_data(doc, c, s) ==
  IF DOMAIN doc = {} THEN [ctl |-> c, scale |-> s]
  ELSE LET afterLeft == IF "left" \in DOMAIN doc THEN UpdateScale(s, doc["left"]) ELSE s
       IN  [ctl   |-> [h \in Hands |-> IF h \in DOMAIN doc THEN UpdateHand(c[h], doc[h]) ELSE c[h]],
            scale |-> IF "right" \in DOMAIN doc THEN UpdateScale(afterLeft, doc["right"])
                      ELSE afterLeft]

\* update_plot, lines 526 and 540: the colour a controller is drawn in
controller_color(hand) ==
  IF ctl[hand].trigger_pressed THEN "green"
  ELSE IF hand = "left" THEN "blue" ELSE "red"

\* the part of an entry that decides whether its position is recorded
PositionPart(entry) ==
  [tracked |-> Get(entry, "tracked", FALSE),
   position |-> IF "position" \in DOMAIN entry THEN entry.position ELSE EmptyDict]

\* entries a snapshot may hold for a hand: fields present or absent, the
\* trigger in either encoding, and entries as the sender builds them
PositionEntries ==
  { [tracked |-> TRUE, position |-> [x |-> 1, y |-> 2, z |-> -1],
     rotation |-> [roll |-> 0, pitch |-> 0, yaw |-> 90]],
    [tracked |-> TRUE, position |-> [x |-> -2, y |-> 0, z |-> 3]],
    [tracked |-> TRUE, position |-> [x |-> 4, y |-> -3, z |-> 0],
     rotation |-> [roll |-> 180, pitch |-> 0]],
    [tracked |-> TRUE, position |-> [x |-> 9, y |-> 9]],
    [position |-> [x |-> -9, y |-> -9, z |-> -9],
     rotation |-> [roll |-> 90, pitch |-> 0, yaw |-> 0],
     buttons |-> [grip |-> JBool(TRUE)]] }

TriggerEntries ==
  { [tracked |-> FALSE, position |-> EmptyDict, rotation |-> EmptyDict,
     buttons |-> EmptyDict, analog |-> EmptyDict],
    [tracked |-> TRUE, buttons |-> [trigger |-> JBool(TRUE)]],
    [tracked |-> FALSE, buttons |-> [trigger |-> JBool(FALSE)]],
    [tracked |-> TRUE, buttons |-> [trigger |-> JDict([pressed |-> TRUE, touched |-> TRUE])]],
    [tracked |-> TRUE, buttons |-> [trigger |-> JDict([touched |-> TRUE])]],
    [tracked |-> TRUE, buttons |-> [trigger |-> JBool(TRUE)], analog |-> [trigger |-> JNum(3)]],
    [tracked |-> TRUE, analog |-> [trigger |-> JNum(10)]],
    [tracked |-> FALSE, buttons |-> [trigger |-> JDict([pressed |-> TRUE, touched |-> TRUE])],
     analog |-> [trigger |-> JNum(0)]] }

SenderEntries ==
  { ControllerEntry(inp.pose, inp.result, inp.state) :
      inp \in {i \in PollSamples : i.result /\ i.state.ulButtonPressed # {}} }

VisEntries == PositionEntries \cup TriggerEntries \cup SenderEntries

\* the right hand runs the same code as the left (lines 349-399): fewer
\* entries are enumerated for it
VisRightEntries ==
  { [tracked |-> TRUE, position |-> [x |-> -3, y |-> -1, z |-> 2]],
    [tracked |-> TRUE, position |-> [y |-> 9, z |-> 9]],
    [tracked |-> TRUE, buttons |-> [trigger |-> JDict([touched |-> TRUE])]],
    [tracked |-> TRUE, buttons |-> [trigger |-> JDict([pressed |-> TRUE, touched |-> TRUE])],
     analog |-> [trigger |-> JNum(3)]] }
    \cup SenderEntries

\* snapshots: no hand, one hand, or both hands
VisSnapshots ==
  {[timestamp |-> 1]}
    \cup {[left |-> e, timestamp |-> 1] : e \in VisEntries}
    \cup {[right |-> e, timestamp |-> 1] : e \in VisRightEntries}
    \cup {[left |-> e, right |-> f, timestamp |-> 1] :
            e \in SenderEntries,
            f \in {g \in VisRightEntries : "position" \in DOMAIN g /\ "rotation" \notin DOMAIN g}}

VisDatagrams == {JsonObject(doc) : doc \in VisSnapshots} \cup {BadUtf8, BadJson, JsonScalar}

\* CountError without the reset of the counter at the threshold
CountError_NoReset(count) ==
  [consecutive_errors |-> count + 1,
   socket_error |-> IF count + 1 >= max_consecutive_errors THEN TRUE ELSE socket_error]

\* lines 276-284: the handler of a non-timeout exception in receive_data
CountError(count) ==
  IF count + 1 >= max_consecutive_errors
  THEN [consecutive_errors |-> 0, socket_error |-> TRUE]
  ELSE [consecutive_errors |-> count + 1, socket_error |-> socket_error]

\* receive_data, lines 244-284, for a received datagram d: the counter is
\* reset, the datagram is decoded and the controller data updated
DecodeAndUpdate(d) ==
     CASE d.fmt = "badutf8" ->
            \* data.decode('utf-8') raises UnicodeDecodeError: `except Exception`
            /\ consecutive_errors' = CountError(0).consecutive_errors
            /\ socket_error' = CountError(0).socket_error
            /\ UNCHANGED <<latest_data, ctl, scale, last_update_time, history>>
       [] d.fmt = "badjson" ->
            \* json.JSONDecodeError is caught by the inner handler
            /\ consecutive_errors' = 0
            /\ UNCHANGED <<latest_data, ctl, scale, socket_error, last_update_time, history>>
       [] d.fmt = "scalar" ->
            \* latest_data is assigned; `"left" in self.latest_data` raises
            \* TypeError on a number: `except Exception`
            /\ latest_data' = [fmt |-> "scalar", doc |-> d.doc]
            /\ consecutive_errors' = CountError(0).consecutive_errors
            /\ socket_error' = CountError(0).socket_error
            /\ UNCHANGED <<ctl, scale, last_update_time, history>>
       [] d.fmt = "object" ->
            LET after == update_controller_data(d.doc, ctl, scale)
            IN  /\ last_update_time < MaxPackets
                /\ latest_data' = [fmt |-> "object", doc |-> d.doc]
                /\ ctl' = after.ctl
                /\ scale' = after.scale
                /\ consecutive_errors' = 0
                /\ last_update_time' = last_update_time + 1
                /\ history' = [h \in Hands |->
                                 IF h \in DOMAIN d.doc
                                 THEN Append(history[h], PositionPart(d.doc[h]))
                                 ELSE history[h]]
                /\ UNCHANGED socket_error

\* one iteration of the loop of receive_data (lines 230-284) in which
\* recvfrom returns the datagram d
VisReceive(d) ==
  /\ ~socket_error
  /\ DecodeAndUpdate(d)
  /\ UNCHANGED nonVisVars

VisReceiveDatagram == \E d \in VisDatagrams : VisReceive(d)

\* __init__, lines 50-96: the data fields
VisFieldsInit ==
  /\ latest_data = [fmt |-> "none"]
  /\ ctl = [h \in Hands |-> InitialHand]
  /\ scale = InitialScale
  /\ consecutive_errors = 0
  /\ last_update_time = 0
  /\ history = [h \in Hands |-> <<>>]

\* the receiver thread and the main thread of a visualizer whose socket was
\* initialised, before either takes a step
ThreadsAtStart ==
  /\ running = TRUE
  /\ socket_lock = "free"
  /\ tpc = "head"
  /\ mpc = "show"
  /\ pending = [fmt |-> "none"]
  /\ head_error = FALSE
  /\ fail_streak = 0

VisInit ==
  /\ VisFieldsInit
  /\ socket_error = FALSE
  /\ sock = "bound"
  /\ ThreadsAtStart

-----------------------------------------------------------------------------
(* The visualizer's threads: receive_data in the receiver thread; key       *)
(* presses and cleanup in the main thread                                   *)

\* what a call of the thread returned
Timeout == [fmt |-> "timeout"]             \* recvfrom raised socket.timeout
OSErrorRaised == [fmt |-> "oserror"]       \* recvfrom raised another exception
NoSocket == [fmt |-> "nosock"]             \* "Socket is not initialized" (line 241)
InitOk == [fmt |-> "init_ok"]              \* initialize_socket reached line 140
InitFailed == [fmt |-> "init_failed"]      \* initialize_socket reached line 144

\* the datagrams the thread may receive
ThreadSnapshots ==
  { [timestamp |-> 1],
    [left |-> [tracked |-> TRUE, position |-> [x |-> 1, y |-> 2, z |-> -1],
               buttons |-> [trigger |-> JBool(TRUE)]],
     timestamp |-> 1] }

ThreadDatagrams == {JsonObject(doc) : doc \in ThreadSnapshots} \cup {BadUtf8, BadJson, JsonScalar}

\* IsDatagram with text that is not JSON taken for a failed receive
IsDatagram_NotInvalidJson(res) == res.fmt \in {"object", "scalar", "badutf8"}

IsDatagram(res) == res.fmt \in {"object", "scalar", "badjson", "badutf8"}

\* ThreadHead going on whatever running is
ThreadHead_IgnoresRunning ==
  /\ tpc = "head"
  /\ tpc' = "check"
  /\ UNCHANGED <<visVars, running, sock, socket_lock, mpc, pending, head_error,
                 fail_streak, otherPrograms>>

\* line 230: `while self.running`
ThreadHead ==
  /\ tpc = "head"
  /\ tpc' = IF running THEN "check" ELSE "exit"
  /\ UNCHANGED <<visVars, running, sock, socket_lock, mpc, pending, head_error,
                 fail_streak, otherPrograms>>

\* ThreadCheck going on to the receive whatever socket_error is
ThreadCheck_IgnoresError ==
  /\ tpc = "check"
  /\ head_error' = socket_error
  /\ tpc' = "recv_lock"
  /\ UNCHANGED <<visVars, running, sock, socket_lock, mpc, pending, fail_streak,
                 otherPrograms>>

\* line 231: `if self.socket_error`: initialize_socket or the receive
ThreadCheck ==
  /\ tpc = "check"
  /\ head_error' = socket_error
  /\ tpc' = IF socket_error THEN "init_lock" ELSE "recv_lock"
  /\ UNCHANGED <<visVars, running, sock, socket_lock, mpc, pending, fail_streak,
                 otherPrograms>>

\* initialize_socket, line 126: `with self.socket_lock`
ThreadInitLock ==
  /\ tpc = "init_lock"
  /\ socket_lock = "free"
  /\ socket_lock' = "receiver"
  /\ tpc' = "init_body"
  /\ UNCHANGED <<visVars, running, sock, mpc, pending, head_error, fail_streak,
                 otherPrograms>>

\* initialize_socket, lines 128-139: the old socket is closed; then the
\* creation fails (self.sock keeps the old object), or setsockopt or bind
\* fails (self.sock is the new socket), or all succeed
ThreadInitBody ==
  /\ tpc = "init_body"
  /\ \/ /\ sock' = (IF sock = "None" THEN "None" ELSE "closed")
        /\ pending' = InitFailed
     \/ /\ sock' = "unbound"
        /\ pending' = InitFailed
     \/ /\ sock' = "bound"
        /\ pending' = InitOk
  /\ tpc' = "init_flag"
  /\ UNCHANGED <<visVars, running, socket_lock, mpc, head_error, fail_streak,
                 otherPrograms>>

\* initialize_socket, lines 140 or 144, the release of the lock, and
\* `time.sleep(1); continue` of lines 234-235
ThreadInitFlag ==
  /\ tpc = "init_flag"
  /\ socket_error' = (pending = InitFailed)
  /\ socket_lock' = "free"
  /\ tpc' = "head"
  /\ UNCHANGED <<latest_data, ctl, scale, consecutive_errors, last_update_time, history,
                 running, sock, mpc, pending, head_error, fail_streak, otherPrograms>>

\* line 239: `with self.socket_lock`
ThreadRecvLock ==
  /\ tpc = "recv_lock"
  /\ socket_lock = "free"
  /\ socket_lock' = "receiver"
  /\ tpc' = "recv"
  /\ UNCHANGED <<visVars, running, sock, mpc, pending, head_error, fail_streak,
                 otherPrograms>>

\* lines 240-242 and the release of the lock: no socket raises; recvfrom on
\* the bound socket returns a datagram, times out after 0.1 s or raises; on
\* a socket that is closed or not bound it raises
ThreadRecv ==
  /\ tpc = "recv"
  /\ \E res \in ThreadDatagrams \cup {Timeout, OSErrorRaised, NoSocket} :
       /\ (res = NoSocket) <=> (sock = "None")
       /\ sock # "bound" => ~IsDatagram(res) /\ res # Timeout
       /\ res.fmt = "object" => last_update_time < MaxPackets
       /\ pending' = res
  /\ socket_lock' = "free"
  /\ tpc' = "process"
  /\ UNCHANGED <<visVars, running, sock, mpc, head_error, fail_streak, otherPrograms>>

\* lines 244-284: after a receive the counter is reset and the datagram
\* decoded; a timeout passes; any other exception is counted, sets
\* socket_error at the threshold, and the thread sleeps 0.5 s
ThreadProcess ==
  /\ tpc = "process"
  /\ CASE IsDatagram(pending) ->
            /\ DecodeAndUpdate(pending)
            /\ fail_streak' = 0
       [] pending = Timeout ->
            /\ UNCHANGED <<visVars, fail_streak>>
       [] OTHER ->
            /\ consecutive_errors' = CountError(consecutive_errors).consecutive_errors
            /\ socket_error' = CountError(consecutive_errors).socket_error
            /\ fail_streak' = IF consecutive_errors + 1 >= max_consecutive_errors
                              THEN 0 ELSE fail_streak + 1
            /\ UNCHANGED <<latest_data, ctl, scale, last_update_time, history>>
  /\ tpc' = "head"
  /\ UNCHANGED <<running, sock, socket_lock, mpc, pending, head_error, otherPrograms>>

ThreadNext ==
  \/ ThreadHead
  \/ ThreadCheck
  \/ ThreadInitLock
  \/ ThreadInitBody
  \/ ThreadInitFlag
  \/ ThreadRecvLock
  \/ ThreadRecv
  \/ ThreadProcess

\* on_key_press, lines 564-567: the key 'r' while the window is shown
KeyPressR ==
  /\ mpc = "show"
  /\ socket_error' = TRUE
  /\ UNCHANGED <<latest_data, ctl, scale, consecutive_errors, last_update_time, history,
                 threadVars, otherPrograms>>

\* run_visualization, line 610, and cleanup, lines 614-615: the window was
\* closed; running is set to false
CleanupStart ==
  /\ mpc = "show"
  /\ running' = FALSE
  /\ mpc' = "sleep"
  /\ UNCHANGED <<visVars, sock, socket_lock, tpc, pending, head_error, fail_streak,
                 otherPrograms>>

\* cleanup, line 616: time.sleep(0.2) returns
CleanupSleep ==
  /\ mpc = "sleep"
  /\ mpc' = "lock"
  /\ UNCHANGED <<visVars, running, sock, socket_lock, tpc, pending, head_error,
                 fail_streak, otherPrograms>>

\* CleanupLock taking the lock without waiting for it
CleanupLock_NoWait ==
  /\ mpc = "lock"
  /\ socket_lock' = "main"
  /\ mpc' = "close"
  /\ UNCHANGED <<visVars, running, sock, tpc, pending, head_error, fail_streak,
                 otherPrograms>>

\* cleanup, line 619: `with self.socket_lock`
CleanupLock ==
  /\ mpc = "lock"
  /\ socket_lock = "free"
  /\ socket_lock' = "main"
  /\ mpc' = "close"
  /\ UNCHANGED <<visVars, running, sock, tpc, pending, head_error, fail_streak,
                 otherPrograms>>

\* cleanup, lines 620-627: the socket is closed and self.sock set to None;
\* the lock is released and cleanup returns
CleanupClose ==
  /\ mpc = "close"
  /\ sock' = "None"
  /\ socket_lock' = "free"
  /\ mpc' = "done"
  /\ UNCHANGED <<visVars, running, tpc, pending, head_error, fail_streak, otherPrograms>>

MainNext ==
  \/ KeyPressR
  \/ CleanupStart
  \/ CleanupSleep
  \/ CleanupLock
  \/ CleanupClose

\* __init__, lines 47-110: initialize_socket succeeded, or failed before or
\* after the socket was created; the receiver thread is started
ThreadInit ==
  /\ VisFieldsInit
  /\ ThreadsAtStart
  /\ \E r \in {[sock |-> "bound", socket_error |-> FALSE],
               [sock |-> "unbound", socket_error |-> TRUE],
               [sock |-> "None", socket_error |-> TRUE]} :
       sock = r.sock /\ socket_error = r.socket_error

-----------------------------------------------------------------------------
(* The example receiver: ViveDataReceiver (examples/custom_receiver.py) *)

\* lst[-n:]
LastN(lst, n) ==
  IF n = 0 \/ Len(lst) <= n THEN lst ELSE SubSeq(lst, Len(lst) - n + 1, Len(lst))

\* __init__, lines 33-36: the history of one hand
EmptyHistory == [x |-> <<>>, y |-> <<>>, z |-> <<>>]

\* update, lines 52-65, for one hand: pos = entry["position"] and pos["x"],
\* pos["y"], pos["z"] raise KeyError when the key is missing, after the
\* appends that came before; the lists are trimmed after the three appends
update_hand(hist, entry) ==
  IF ~Get(entry, "tracked", FALSE) THEN [hist |-> hist, raised |-> FALSE]
  ELSE IF "position" \notin DOMAIN entry THEN [hist |-> hist, raised |-> TRUE]
  ELSE LET pos  == entry.position
           keys == DOMAIN pos
           hx   == IF "x" \in keys THEN Append(hist.x, pos.x) ELSE hist.x
           hy   == IF {"x", "y"} \subseteq keys THEN Append(hist.y, pos.y) ELSE hist.y
           hz   == IF {"x", "y", "z"} \subseteq keys THEN Append(hist.z, pos.z) ELSE hist.z
       IN  IF ~({"x", "y", "z"} \subseteq keys)
           THEN [hist |-> [x |-> hx, y |-> hy, z |-> hz], raised |-> TRUE]
           ELSE IF Len(hx) > max_history
           THEN [hist |-> [x |-> LastN(hx, max_history), y |-> LastN(hy, max_history),
                           z |-> LastN(hz, max_history)],
                 raised |-> FALSE]
           ELSE [hist |-> [x |-> hx, y |-> hy, z |-> hz], raised |-> FALSE]

\* update, line 51: `for hand in ["left", "right"]`; an exception in the
\* left hand leaves the right hand unprocessed
update_history(ph, doc) ==
  LET l == IF "left" \in DOMAIN doc THEN update_hand(ph["left"], doc["left"])
           ELSE [hist |-> ph["left"], raised |-> FALSE]
      r == IF l.raised THEN [hist |-> ph["right"], raised |-> TRUE]
           ELSE IF "right" \in DOMAIN doc THEN update_hand(ph["right"], doc["right"])
           ELSE [hist |-> ph["right"], raised |-> FALSE]
  IN  [position_history |-> [h \in Hands |-> IF h = "left" THEN l.hist ELSE r.hist],
       raised |-> r.raised]

\* entries a snapshot may hold for a hand
CustomEntries ==
  { [tracked |-> TRUE, position |-> [x |-> 1, y |-> 2, z |-> 3]],
    [tracked |-> TRUE, position |-> [x |-> 4, y |-> 5, z |-> 6]],
    [tracked |-> TRUE, position |-> [x |-> 7]],
    [tracked |-> TRUE],
    [tracked |-> FALSE, position |-> EmptyDict, rotation |-> EmptyDict,
     buttons |-> EmptyDict, analog |-> EmptyDict],
    [position |-> [x |-> 8, y |-> 8, z |-> 8]] }
    \cup SenderEntries

\* snapshots: no hand, one hand, or both hands
CustomSnapshots ==
  {[timestamp |-> 1]}
    \cup {[left |-> e, timestamp |-> 1] : e \in CustomEntries}
    \cup {[right |-> e, timestamp |-> 1] : e \in CustomEntries \ SenderEntries}
    \cup {[left |-> e, right |-> f, timestamp |-> 1] :
            e \in {g \in CustomEntries : "rotation" \notin DOMAIN g /\ "tracked" \in DOMAIN g},
            f \in SenderEntries}

CustomDatagrams == {JsonObject(doc) : doc \in CustomSnapshots} \cup {BadUtf8, BadJson, JsonScalar}

\* an exception leaves update: text_mode catches only KeyboardInterrupt, so
\* the program ends through `finally: receiver.close()` (lines 197-206); in
\* plot mode the exception is raised inside the animation callback and the
\* receiver stays in use
AfterException == IF cr_mode = "text" THEN "closed" ELSE cr_sock

\* update (lines 41-74) when recvfrom returns the datagram d
CustomUpdate(d) ==
  /\ cr_sock = "open"
  /\ CASE d.fmt = "badutf8" ->
            \* data.decode() raises UnicodeDecodeError, which no handler catches
            /\ cr_last' = "raised"
            /\ cr_sock' = AfterException
            /\ UNCHANGED <<cr_latest_data, position_history, cr_history>>
       [] d.fmt = "badjson" ->
            /\ cr_last' = "False"
            /\ UNCHANGED <<cr_sock, cr_latest_data, position_history, cr_history>>
       [] d.fmt = "scalar" ->
            \* `hand in self.latest_data` raises TypeError on a number
            /\ cr_latest_data' = [fmt |-> "scalar", doc |-> d.doc]
            /\ cr_last' = "raised"
            /\ cr_sock' = AfterException
            /\ UNCHANGED <<position_history, cr_history>>
       [] d.fmt = "object" ->
            LET after == update_history(position_history, d.doc)
            IN  /\ Len(cr_history["left"]) + Len(cr_history["right"]) < MaxPackets
                /\ cr_latest_data' = [fmt |-> "object", doc |-> d.doc]
                /\ position_history' = after.position_history
                /\ cr_last' = IF after.raised THEN "raised" ELSE "True"
                /\ cr_sock' = IF after.raised THEN AfterException ELSE cr_sock
                /\ cr_history' = [h \in Hands |->
                                    IF h \in DOMAIN d.doc
                                    THEN Append(cr_history[h], PositionPart(d.doc[h]))
                                    ELSE cr_history[h]]
  /\ UNCHANGED <<cr_mode, nonCustomVars>>

CustomReceiveDatagram == \E d \in CustomDatagrams : CustomUpdate(d)

\* update when no datagram is waiting: BlockingIOError, return False
CustomNoData ==
  /\ cr_sock = "open"
  /\ cr_last' = "False"
  /\ UNCHANGED <<cr_mode, cr_sock, cr_latest_data, position_history, cr_history, nonCustomVars>>

\* KeyboardInterrupt in text mode or the window is closed in plot mode:
\* `finally: receiver.close()` (lines 205-206)
CustomClose ==
  /\ cr_sock = "open"
  /\ cr_sock' = "closed"
  /\ UNCHANGED <<cr_mode, cr_latest_data, position_history, cr_last, cr_history, nonCustomVars>>

CustomInit ==
  /\ cr_mode \in {"text", "plot"}
  /\ cr_sock = "open"
  /\ cr_latest_data = [fmt |-> "none"]
  /\ position_history = [h \in Hands |-> EmptyHistory]
  /\ cr_last = "none"
  /\ cr_history = [h \in Hands |-> <<>>]

-----------------------------------------------------------------------------
(* The visualizer's display: update_plot in the main thread, update_terminal *)
(* in its own thread, and update_controller_data statement by statement in   *)
(* the receiver thread                                                       *)

axis_limit == 20   \* axis_limit=2.0 metres, in tenths

\* the fields of a hand both display functions read: update_terminal lines
\* 171-179 and 192-200, update_plot lines 503-508 and 526-551
DisplayedFields(c) ==
  [tracked |-> c.tracked, position |-> c.position, rotation |-> c.rotation,
   trigger_pressed |-> c.trigger_pressed]

\* update_plot, lines 479-500: the axis limits, in twentieths of a metre;
\* center - range/2 - padding with padding = 0.2 is, doubled,
\* min + max - range - 4; the Y data go to the z axis of the plot
axis_limits ==
  IF auto_scale /\ scale.min_x # scale.max_x
  THEN LET x_range == Max(5, scale.max_x - scale.min_x)
           y_range == Max(5, scale.max_y - scale.min_y)
           z_range == Max(5, scale.max_z - scale.min_z)
       IN  [mode |-> "auto",
            xlim |-> <<scale.min_x + scale.max_x - x_range - 4,
                       scale.min_x + scale.max_x + x_range + 4>>,
            zlim |-> <<scale.min_y + scale.max_y - y_range - 4,
                       scale.min_y + scale.max_y + y_range + 4>>,
            ylim |-> <<scale.min_z + scale.max_z - z_range - 4,
                       scale.min_z + scale.max_z + z_range + 4>>]
  ELSE [mode |-> "fixed",
        xlim |-> <<-2 * axis_limit, 2 * axis_limit>>,
        ylim |-> <<-2 * axis_limit, 2 * axis_limit>>,
        zlim |-> <<0, 4 * axis_limit>>]

\* update_plot (lines 468-556), one frame of the animation: the axis limits
\* are set and the title, the colours and the controllers are drawn from the
\* fields of both hands
update_plot ==
  /\ limits' = axis_limits
  /\ observed' = [by |-> "plot", left |-> DisplayedFields(ctl["left"]),
                   right |-> DisplayedFields(ctl["right"])]
  /\ UNCHANGED <<auto_scale, upc, whole, visVars, nonDisplayVars>>

\* update_terminal (lines 153-223), one pass of its loop: the status of both
\* hands is printed
update_terminal ==
  /\ running
  /\ observed' = [by |-> "terminal", left |-> DisplayedFields(ctl["left"]),
                   right |-> DisplayedFields(ctl["right"])]
  /\ UNCHANGED <<auto_scale, limits, upc, whole, visVars, nonDisplayVars>>

\* on_key_press, lines 560-563: the key 'a' toggles the auto-scaling
KeyPressA ==
  /\ auto_scale' = ~auto_scale
  /\ UNCHANGED <<limits, observed, upc, whole, visVars, nonDisplayVars>>

\* snapshots for the axis limits: positions on and off the plane x = 0,
\* the origin itself, and a position that is not tracked
PlotSnapshots ==
  { [left |-> [tracked |-> TRUE, position |-> [x |-> 0, y |-> -2, z |-> 3]], timestamp |-> 1],
    [left |-> [tracked |-> TRUE, position |-> [x |-> 1, y |-> 2, z |-> -1]], timestamp |-> 1],
    [right |-> [tracked |-> TRUE, position |-> [x |-> 0, y |-> 0, z |-> 0]], timestamp |-> 1],
    [right |-> [tracked |-> TRUE, position |-> [x |-> -30, y |-> 0, z |-> 8]], timestamp |-> 1],
    [left |-> [tracked |-> FALSE, position |-> [x |-> 5, y |-> 5, z |-> 5]], timestamp |-> 1] }

\* receive_data with update_controller_data as one step, for the snapshots
\* above
PlotReceive == \E doc \in PlotSnapshots : VisReceive(JsonObject(doc))

\* the position of the receiver thread: outside update_controller_data, at
\* a statement for a hand, or at the assignment of last_update_time
Idle == [hand |-> "none", stage |-> "idle"]
Stamp == [hand |-> "none", stage |-> "stamp"]
At(h, stage) == [hand |-> h, stage |-> stage]

\* lines 296 and 349: the first hand the document has an entry for
FirstHand(doc) ==
  IF "left" \in DOMAIN doc THEN At("left", "tracked")
  ELSE IF "right" \in DOMAIN doc THEN At("right", "tracked")
  ELSE Stamp

\* line 349: after the left hand the right hand, when the document has it
AfterHand(doc, h) ==
  IF h = "left" /\ "right" \in DOMAIN doc THEN At("right", "tracked") ELSE Stamp

\* snapshots as the sender builds them, applied statement by statement
DisplaySnapshots ==
  { [left |-> e, timestamp |-> 1] : e \in SenderEntries }
    \cup { [left |-> [tracked |-> FALSE, position |-> EmptyDict, rotation |-> EmptyDict,
                       buttons |-> EmptyDict, analog |-> EmptyDict],
             timestamp |-> 1],
            [right |-> [tracked |-> TRUE, position |-> [x |-> -3, y |-> -1, z |-> 2],
                        rotation |-> [roll |-> 0, pitch |-> 0, yaw |-> 90],
                        buttons |-> [trigger |-> JBool(TRUE)], analog |-> EmptyDict],
             timestamp |-> 1] }

\* receive_data, lines 242-262: a datagram holding a snapshot is received and
\* decoded, latest_data is assigned and update_controller_data is entered
ReceiveSnapshot ==
  /\ upc = Idle
  /\ ~socket_error
  /\ last_update_time < MaxPackets
  /\ \E doc \in DisplaySnapshots :
       /\ latest_data' = [fmt |-> "object", doc |-> doc]
       /\ upc' = FirstHand(doc)
       /\ whole' = [h \in Hands |->
                      whole[h] \cup
                        {DisplayedFields(update_controller_data(doc, ctl, scale).ctl[h])}]
  /\ consecutive_errors' = 0
  /\ UNCHANGED <<ctl, scale, socket_error, last_update_time, history,
                 auto_scale, limits, observed, nonDisplayVars>>

\* lines 298 and 351: the tracked flag
ApplyTracked ==
  /\ upc.stage = "tracked"
  /\ LET h == upc.hand
         entry == latest_data.doc[h]
     IN  /\ ctl' = [ctl EXCEPT ![h].tracked = Get(entry, "tracked", FALSE)]
         /\ upc' = At(h, "buttons")
  /\ UNCHANGED <<latest_data, scale, consecutive_errors, socket_error, last_update_time,
                 history, auto_scale, limits, observed, whole, nonDisplayVars>>

\* lines 304-315 and 357-368: the buttons, the trigger state from
\* buttons["trigger"], and the test of the tracked flag
ApplyButtons ==
  /\ upc.stage = "buttons"
  /\ LET h == upc.hand
         entry == latest_data.doc[h]
     IN  /\ ctl' = IF "buttons" \in DOMAIN entry
                   THEN [ctl EXCEPT ![h].buttons = entry.buttons,
                                    ![h].trigger_pressed =
                                       TriggerFromButtons(entry.buttons, ctl[h].trigger_pressed)]
                   ELSE ctl
         /\ upc' = IF ctl[h].tracked THEN At(h, "position") ELSE AfterHand(latest_data.doc, h)
  /\ UNCHANGED <<latest_data, scale, consecutive_errors, socket_error, last_update_time,
                 history, auto_scale, limits, observed, whole, nonDisplayVars>>

\* lines 317-336 and 370-389: the position, the trails and min/max
ApplyPosition ==
  /\ upc.stage = "position"
  /\ LET h == upc.hand
         entry == latest_data.doc[h]
         pos == entry.position
     IN  /\ ctl' = IF HasPosition(entry)
                   THEN [ctl EXCEPT
                           ![h].position = <<pos.x, pos.y, pos.z>>,
                           ![h].trail_x = DequeAppend(ctl[h].trail_x, pos.x, max_trail_points),
                           ![h].trail_y = DequeAppend(ctl[h].trail_y, pos.y, max_trail_points),
                           ![h].trail_z = DequeAppend(ctl[h].trail_z, pos.z, max_trail_points)]
                   ELSE ctl
         /\ scale' = UpdateScale(scale, entry)
         /\ upc' = At(h, "rotation")
  /\ UNCHANGED <<latest_data, consecutive_errors, socket_error, last_update_time,
                 history, auto_scale, limits, observed, whole, nonDisplayVars>>

\* lines 339-342 and 392-395: the rotation
ApplyRotation ==
  /\ upc.stage = "rotation"
  /\ LET h == upc.hand
         entry == latest_data.doc[h]
     IN  /\ ctl' = IF HasRotation(entry)
                   THEN [ctl EXCEPT ![h].rotation = <<entry.rotation.roll, entry.rotation.pitch,
                                                      entry.rotation.yaw>>]
                   ELSE ctl
         /\ upc' = At(h, "analog")
  /\ UNCHANGED <<latest_data, scale, consecutive_errors, socket_error, last_update_time,
                 history, auto_scale, limits, observed, whole, nonDisplayVars>>

\* lines 345-346 and 398-399: the trigger state from analog["trigger"]
ApplyAnalog ==
  /\ upc.stage = "analog"
  /\ LET h == upc.hand
         entry == latest_data.doc[h]
     IN  /\ ctl' = IF "analog" \in DOMAIN entry /\ "trigger" \in DOMAIN entry.analog
                   THEN [ctl EXCEPT ![h].trigger_pressed =
                                       entry.analog["trigger"].v > TriggerThreshold]
                   ELSE ctl
         /\ upc' = AfterHand(latest_data.doc, h)
  /\ UNCHANGED <<latest_data, scale, consecutive_errors, socket_error, last_update_time,
                 history, auto_scale, limits, observed, whole, nonDisplayVars>>

\* receive_data, line 265: update_controller_data returned
StampUpdate ==
  /\ upc = Stamp
  /\ last_update_time' = last_update_time + 1
  /\ upc' = Idle
  /\ UNCHANGED <<latest_data, ctl, scale, consecutive_errors, socket_error,
                 history, auto_scale, limits, observed, whole, nonDisplayVars>>

\* the receiver thread, statement by statement
ReceiverSteps ==
  \/ ReceiveSnapshot
  \/ ApplyTracked
  \/ ApplyButtons
  \/ ApplyPosition
  \/ ApplyRotation
  \/ ApplyAnalog
  \/ StampUpdate

\* __init__, line 95, and the display before its first call
DisplayInit ==
  /\ auto_scale = TRUE
  /\ limits = [mode |-> "unset"]
  /\ observed = [by |-> "none"]
  /\ upc = Idle
  /\ whole = [h \in Hands |-> {DisplayedFields(InitialHand)}]

-----------------------------------------------------------------------------
(* The rotation conversions: the visualizer's euler_to_rotation_matrix and   *)
(* the sender's extract_rotation_euler applied to its result                 *)

\* np.dot of two 3x3 matrices of fixed-point numbers
MatMul(A, B) ==
  [i \in 1..3 |-> [j \in 1..3 |->
     (A[i][1] * B[1][j] + A[i][2] * B[2][j] + A[i][3] * B[3][j] + 5000) \div 10000]]

\* lines 407-411: roll, the rotation around the X axis
R_x(roll) ==
  << <<10000, 0, 0>>, <<0, Cos(roll), -Sin(roll)>>, <<0, Sin(roll), Cos(roll)>> >>

\* lines 414-418: pitch, the rotation around the Y axis
R_y(pitch) ==
  << <<Cos(pitch), 0, Sin(pitch)>>, <<0, 10000, 0>>, <<-Sin(pitch), 0, Cos(pitch)>> >>

\* lines 421-425: yaw, the rotation around the Z axis
R_z(yaw) ==
  << <<Cos(yaw), -Sin(yaw), 0>>, <<Sin(yaw), Cos(yaw), 0>>, <<0, 0, 10000>> >>

\* euler_to_rotation_matrix multiplying the three rotations in the
\* opposite order
euler_to_rotation_matrix_ReverseOrder(angles) ==
  MatMul(R_x(angles[1]), MatMul(R_y(angles[2]), R_z(angles[3])))

\* euler_to_rotation_matrix (lines 401-430): R = R_z . (R_y . R_x)
euler_to_rotation_matrix(angles) ==
  MatMul(R_z(angles[3]), MatMul(R_y(angles[2]), R_x(angles[1])))

\* the angles the round trip is applied to: roll and yaw in (-180, 180],
\* pitch in [-90, 90], in steps of 15 degrees
EulerInputs ==
  { <<15 * r, 15 * p, 15 * y>> : r \in -11..12, p \in -6..6, y \in -11..12 }

\* the visualizer builds the matrix of the angles
EulerToMatrix ==
  /\ epc = "angles"
  /\ R' = euler_to_rotation_matrix(euler_angles)
  /\ epc' = "matrix"
  /\ UNCHANGED <<euler_angles, extracted, nonEulerVars>>

\* the sender's conversion is applied to the matrix
ExtractEuler ==
  /\ epc = "matrix"
  /\ extracted' = extract_rotation_euler(R)
  /\ epc' = "euler"
  /\ UNCHANGED <<euler_angles, R, nonEulerVars>>

EulerInit ==
  /\ epc = "angles"
  /\ euler_angles \in EulerInputs
  /\ R = <<>>
  /\ extracted = <<>>

EulerNotStarted ==
  /\ epc = "off"
  /\ euler_angles = <<>>
  /\ R = <<>>
  /\ extracted = <<>>

-----------------------------------------------------------------------------
(* Specifications: each program on its own, the others not started *)

SenderNotStarted == SenderInit /\ target_ip = "None" /\ target_port = 0
ReceiverNotStarted == ReceiverInit /\ display_mode = "simple"
CustomNotStarted == CustomInit /\ cr_mode = "text"

\* the sender and the terminal receiver
Init ==
  SenderInit /\ ReceiverInit /\ VisInit /\ CustomNotStarted /\ EulerNotStarted /\ DisplayInit

Next ==
  \/ SenderNext
  \/ ReceiveDatagram

Spec == Init /\ [][Next]_vars

\* the visualizer
OthersNotStarted ==
  SenderNotStarted /\ ReceiverNotStarted /\ CustomNotStarted /\ EulerNotStarted

InitVis == OthersNotStarted /\ VisInit /\ DisplayInit

NextVis == VisReceiveDatagram

SpecVis == InitVis /\ [][NextVis]_vars

\* the visualizer's receiver thread and main thread
InitThread == OthersNotStarted /\ ThreadInit /\ DisplayInit

NextThread ==
  \/ ThreadNext
  \/ MainNext

SpecThread == InitThread /\ [][NextThread]_vars

\* each thread is scheduled again and again: the receiver thread takes its
\* next step when it has one, and cleanup, once called, runs to its end
Cleanup == CleanupSleep \/ CleanupLock \/ CleanupClose

FairSpecThread == SpecThread /\ WF_vars(ThreadNext) /\ WF_vars(Cleanup)

\* the example receiver
InitCustom ==
  /\ SenderNotStarted /\ ReceiverNotStarted /\ VisInit /\ CustomInit
  /\ EulerNotStarted /\ DisplayInit

NextCustom ==
  \/ CustomReceiveDatagram
  \/ CustomNoData
  \/ CustomClose

SpecCustom == InitCustom /\ [][NextCustom]_vars

\* the rotation conversions, applied one after the other
InitEuler ==
  /\ SenderNotStarted /\ ReceiverNotStarted /\ VisInit /\ CustomNotStarted
  /\ EulerInit /\ DisplayInit

NextEuler ==
  \/ EulerToMatrix
  \/ ExtractEuler

SpecEuler == InitEuler /\ [][NextEuler]_vars

\* the visualizer with its plot: snapshots applied, the key 'a', frames drawn
NextPlot ==
  \/ PlotReceive
  \/ KeyPressA
  \/ update_plot

SpecPlot == InitVis /\ [][NextPlot]_vars

\* the visualizer's receiver thread applying snapshots statement by
\* statement while the main thread and the terminal thread display
NextDisplay ==
  \/ ReceiverSteps
  \/ update_plot
  \/ update_terminal

SpecDisplay == InitVis /\ [][NextDisplay]_vars

-----------------------------------------------------------------------------
(* Properties of the sender and the terminal receiver *)

\* the entries of a snapshot: its keys other than the timestamp
EntryKeys(doc) == DOMAIN doc \ {"timestamp"}

EntryFields == {"tracked", "position", "rotation", "buttons", "analog"}

\* the bit of the pressed mask that a main button stands for
MainButtonId(btn) ==
  CASE btn = "system"  -> k_EButton_System
    [] btn = "menu"    -> k_EButton_ApplicationMenu
    [] btn = "grip"    -> k_EButton_Grip
    [] btn = "trigger" -> k_EButton_SteamVR_Trigger

\* C1 as stated: at the end of every iteration with a target configured,
\* exactly one datagram has left, holding this iteration's snapshot with its
\* timestamp; with no target configured no datagram is ever sent.
C1_OneDatagramEveryIteration ==
  /\ (spc = "sleep" /\ TargetConfigured) =>
        /\ sentCount = 1
        /\ wire.fmt = "object"
        /\ wire.doc = controller_data
        /\ "timestamp" \in DOMAIN wire.doc /\ wire.doc.timestamp = iter
  /\ ~TargetConfigured => (wire = NoDatagram /\ sentCount = 0)

\* C1 (amended): at the end of every iteration with a target configured,
\* exactly one send was attempted with this iteration's snapshot (timestamp
\* added); exactly one datagram has left, holding that snapshot, when the
\* attempt succeeded and none when it raised.  With no target configured
\* nothing is attempted and no datagram is ever sent.
C1_OneAttemptEveryIteration ==
  /\ (spc = "sleep" /\ TargetConfigured) =>
        /\ sendAttempts = 1
        /\ sentCount = (IF sendError THEN 0 ELSE 1)
        /\ "timestamp" \in DOMAIN controller_data /\ controller_data.timestamp = iter
        /\ sentCount = 1 =>
             /\ wire.fmt = "object"
             /\ wire.doc = controller_data
             /\ wire.origin = sdk
  /\ ~TargetConfigured => (wire = NoDatagram /\ sentCount = 0 /\ sendAttempts = 0)

\* C1 witness: a second iteration has sent its own snapshot
C1_Witness ==
  /\ spc = "sleep" /\ TargetConfigured /\ iter = 2 /\ sentCount = 1
  /\ wire.fmt = "object" /\ wire.doc.timestamp = 2

\* C2 as stated: every transmitted snapshot has an entry for the left and for
\* the right controller, each with the five fields.
C2_BothHandsInEverySnapshot ==
  wire.fmt = "object" =>
    \A h \in Hands : h \in DOMAIN wire.doc /\ EntryFields \subseteq DOMAIN wire.doc[h]

\* C2 (amended): every transmitted snapshot has an entry for exactly the
\* controllers that were detected at startup, each with the five fields.
C2_DetectedHandsInEverySnapshot ==
  wire.fmt = "object" =>
    /\ EntryKeys(wire.doc) = {h \in Hands : controllers[h]}
    /\ \A h \in EntryKeys(wire.doc) : EntryFields \subseteq DOMAIN wire.doc[h]

\* C2 witness: a snapshot was transmitted while only one controller was detected
C2_Witness ==
  /\ wire.fmt = "object"
  /\ controllers["left"] /\ ~controllers["right"]
  /\ EntryKeys(wire.doc) = {"left"}

\* C3: in every transmitted snapshot an entry is tracked iff the pose of its
\* controller was valid in the iteration that built it; an untracked entry
\* has empty position, rotation, buttons and analog; a tracked entry has
\* position x, y, z and rotation roll, pitch, yaw.
C3_TrackedIffPoseValid ==
  wire.fmt = "object" =>
    \A h \in EntryKeys(wire.doc) :
      LET e == wire.doc[h]
      IN  /\ e.tracked = wire.origin[h].valid
          /\ ~e.tracked =>
               /\ DOMAIN e.position = {} /\ DOMAIN e.rotation = {}
               /\ DOMAIN e.buttons = {} /\ DOMAIN e.analog = {}
          /\ e.tracked =>
               /\ DOMAIN e.position = {"x", "y", "z"}
               /\ DOMAIN e.rotation = {"roll", "pitch", "yaw"}

\* C3 witness: a transmitted snapshot with a tracked and an untracked entry
C3_Witness ==
  /\ wire.fmt = "object"
  /\ EntryKeys(wire.doc) = Hands
  /\ wire.doc["left"].tracked /\ wire.origin["left"].valid
  /\ ~wire.doc["right"].tracked /\ ~wire.origin["right"].valid

\* C4 as stated: in every transmitted snapshot, for a controller with a valid
\* pose and a controller state that was read, system, menu, grip and trigger
\* are booleans equal to their bits of the pressed mask, and trackpad is a
\* dict with the fields pressed and touched.
C4_MainButtonsAreBooleans ==
  wire.fmt = "object" =>
    \A h \in EntryKeys(wire.doc) :
      (wire.origin[h].valid /\ wire.origin[h].result) =>
        LET buttons == wire.doc[h].buttons
        IN  /\ \A btn \in MainButtons :
                 /\ btn \in DOMAIN buttons
                 /\ buttons[btn].t = "bool"
                 /\ buttons[btn].v = Bit(wire.origin[h].pressed, MainButtonId(btn))
            /\ "trackpad" \in DOMAIN buttons
            /\ buttons["trackpad"].t = "dict"
            /\ DOMAIN buttons["trackpad"].v = {"pressed", "touched"}

\* C5 as stated: when the terminal receiver has decoded a snapshot of the
\* sender and display_simple has printed it, a main button of a tracked
\* controller is reported PRESSED iff its bit was set in the pressed mask
\* the sender read.
C5_PressedIffBitSet ==
  (rpc = "recv" /\ rx.fmt = "object" /\ "origin" \in DOMAIN rx /\ shown.what = "simple") =>
    \A h \in Hands :
      shown.hands[h].kind = "tracked" =>
        \A btn \in DOMAIN shown.hands[h].main :
          (shown.hands[h].main[btn] = "PRESSED")
            <=> Bit(rx.origin[h].pressed, MainButtonId(btn))

-----------------------------------------------------------------------------
(* Properties of the visualizer and of the example receiver *)

\* the n most recent elements of a sequence
MostRecent(seq, n) ==
  IF Len(seq) <= n THEN seq ELSE SubSeq(seq, Len(seq) - n + 1, Len(seq))

\* a position arrived in an entry marked tracked, with x, y and z
IsAccepted(part) == part.tracked /\ {"x", "y", "z"} \subseteq DOMAIN part.position

\* the positions of a hand the visualizer accepted
Accepted(hand) == SelectSeq(history[hand], IsAccepted)

\* the list holds the coordinate `axis` of the given positions, in order
HoldsAxis(list, parts, axis) ==
  /\ Len(list) = Len(parts)
  /\ \A i \in 1..Len(parts) :
       /\ axis \in DOMAIN parts[i].position
       /\ list[i] = parts[i].position[axis]

\* the entry carries buttons.trigger
HasButtonsTrigger(entry) == "buttons" \in DOMAIN entry /\ "trigger" \in DOMAIN entry.buttons

\* the entry carries an analog trigger value
HasAnalogTrigger(entry) == "analog" \in DOMAIN entry /\ "trigger" \in DOMAIN entry.analog

\* the entry reports the trigger button as pressed, in either encoding
ReportsTriggerPressed(entry) ==
  /\ HasButtonsTrigger(entry)
  /\ \/ entry.buttons["trigger"].t = "bool" /\ entry.buttons["trigger"].v
     \/ /\ entry.buttons["trigger"].t = "dict"
        /\ Get(entry.buttons["trigger"].v, "pressed", FALSE)

\* C6: after update_controller_data has processed a snapshot whose entry for
\* a hand carries buttons.trigger and no analog trigger value, the hand's
\* trigger_pressed is the boolean itself when buttons.trigger is a boolean,
\* and its pressed field (false when absent) when it is a dict.
C6_TriggerResolvedInBothEncodings ==
  latest_data.fmt = "object" =>
    \A h \in Hands \cap DOMAIN latest_data.doc :
      LET entry == latest_data.doc[h]
      IN  (HasButtonsTrigger(entry) /\ ~HasAnalogTrigger(entry)) =>
            /\ entry.buttons["trigger"].t = "bool" =>
                 ctl[h].trigger_pressed = entry.buttons["trigger"].v
            /\ entry.buttons["trigger"].t = "dict" =>
                 ctl[h].trigger_pressed = Get(entry.buttons["trigger"].v, "pressed", FALSE)

\* C6 happens: a dict-encoded pressed trigger without an analog value was
\* processed for the left hand, and the latest snapshot holds a dict
\* without a pressed field for the right hand
C6_Witness ==
  /\ latest_data.fmt = "object"
  /\ "right" \in DOMAIN latest_data.doc
  /\ HasButtonsTrigger(latest_data.doc["right"])
  /\ ~HasAnalogTrigger(latest_data.doc["right"])
  /\ latest_data.doc["right"].buttons["trigger"].t = "dict"
  /\ "pressed" \notin DOMAIN latest_data.doc["right"].buttons["trigger"].v
  /\ ~ctl["right"].trigger_pressed
  /\ ctl["left"].trigger_pressed
  /\ ctl["left"].buttons = [trigger |-> JDict([pressed |-> TRUE, touched |-> TRUE])]

\* C7 as stated: whenever the latest snapshot of a tracked controller reports
\* its trigger button as pressed (buttons.trigger true, or
\* buttons.trigger.pressed true), the visualizer marks that controller's
\* trigger as pressed and draws it green.
C7_PressedTriggerDrawnGreen ==
  latest_data.fmt = "object" =>
    \A h \in Hands \cap DOMAIN latest_data.doc :
      LET entry == latest_data.doc[h]
      IN  (Get(entry, "tracked", FALSE) /\ ReportsTriggerPressed(entry)) =>
            /\ ctl[h].trigger_pressed
            /\ controller_color(h) = "green"

\* C8: each trail of a hand holds at most max_trail_points entries, the three
\* trails of a hand have the same length, and they hold the most recent
\* accepted positions of the hand in arrival order.
C8_TrailsHoldRecentAccepted ==
  \A h \in Hands :
    LET recent == MostRecent(Accepted(h), max_trail_points)
    IN  /\ Len(ctl[h].trail_x) <= max_trail_points
        /\ Len(ctl[h].trail_y) = Len(ctl[h].trail_x)
        /\ Len(ctl[h].trail_z) = Len(ctl[h].trail_x)
        /\ HoldsAxis(ctl[h].trail_x, recent, "x")
        /\ HoldsAxis(ctl[h].trail_y, recent, "y")
        /\ HoldsAxis(ctl[h].trail_z, recent, "z")

\* C8 happens: the left hand received more accepted positions than a trail
\* holds, so the oldest was evicted
C8_Witness ==
  /\ Len(Accepted("left")) > max_trail_points
  /\ Len(ctl["left"].trail_x) = max_trail_points
  /\ ctl["left"].trail_x[1] # Accepted("left")[1].position.x

\* C9 as stated: after every call of update, each position-history list of
\* each hand holds at most max_history entries, and these are the most recent
\* tracked positions of that hand in arrival order (a position being the
\* x, y and z of an entry marked tracked).
C9_HistoryHoldsRecentTracked ==
  cr_last # "none" =>
    \A h \in Hands :
      LET recent == MostRecent(SelectSeq(cr_history[h], IsAccepted), max_history)
      IN  /\ Len(position_history[h].x) <= max_history
          /\ Len(position_history[h].y) <= max_history
          /\ Len(position_history[h].z) <= max_history
          /\ HoldsAxis(position_history[h].x, recent, "x")
          /\ HoldsAxis(position_history[h].y, recent, "y")
          /\ HoldsAxis(position_history[h].z, recent, "z")

\* the bounds of the auto-scaling include the origin and every coordinate of
\* every accepted position of either hand
ScaleIncludesAccepted ==
  /\ scale.min_x <= 0 /\ 0 <= scale.max_x
  /\ scale.min_y <= 0 /\ 0 <= scale.max_y
  /\ scale.min_z <= 0 /\ 0 <= scale.max_z
  /\ \A h \in Hands : \A i \in 1..Len(Accepted(h)) :
       LET pos == Accepted(h)[i].position
       IN  /\ scale.min_x <= pos.x /\ pos.x <= scale.max_x
           /\ scale.min_y <= pos.y /\ pos.y <= scale.max_y
           /\ scale.min_z <= pos.z /\ pos.z <= scale.max_z

\* no step raises a minimum or lowers a maximum
ScaleNeverShrinks ==
  /\ scale'.min_x <= scale.min_x /\ scale'.max_x >= scale.max_x
  /\ scale'.min_y <= scale.min_y /\ scale'.max_y >= scale.max_y
  /\ scale'.min_z <= scale.min_z /\ scale'.max_z >= scale.max_z

\* C10: in every reachable state and for each axis, min <= 0 <= max and
\* min <= c <= max for every coordinate c of every accepted position of
\* either hand; min never increases and max never decreases.
C10_ScaleBoundsGrowOnly == []ScaleIncludesAccepted /\ [][ScaleNeverShrinks]_vars

\* C10 happens: both hands had positions accepted, with negative and positive
\* coordinates, and a later position lay strictly inside the bounds
C10_Witness ==
  /\ Len(Accepted("left")) > 0 /\ Len(Accepted("right")) > 0
  /\ scale.min_x < 0 /\ scale.max_x > 0
  /\ scale.min_y < 0 /\ scale.max_z > 0
  /\ \E h \in Hands :
       /\ ctl[h].tracked
       /\ scale.min_x < ctl[h].position[1] /\ ctl[h].position[1] < scale.max_x

-----------------------------------------------------------------------------
(* Properties of error handling, reinitialisation and shutdown *)

\* C11 as stated: whatever datagram the terminal receiver receives (invalid
\* JSON, bytes that are not valid text, or valid JSON that is not a snapshot
\* object of the expected shape), it reports or skips the datagram and goes
\* on to receive the next one: no received datagram ends the receive loop.
C11_NoDatagramEndsTheLoop == [][ReceiveDatagram => rpc' = "recv"]_vars

\* the receiver thread finishes the handling of what it received
ProcessStep == tpc = "process" /\ tpc' = "head"

\* the handling of what was received raised an exception other than a
\* timeout or json.JSONDecodeError
RaisedInIteration(res) == res.fmt \in {"badutf8", "scalar", "oserror", "nosock"}

ReinitialisedOrStopped == tpc = "init_flag" \/ ~running

\* C13: whenever socket_error is true while the visualizer is running, the
\* receiver thread eventually runs initialize_socket (the old socket is
\* closed, a new one created and bound); on success socket_error is
\* cleared, on failure it stays true, so that the next iteration retries;
\* and an iteration that read socket_error as true at its head does not
\* attempt a receive.
C13_ReinitialisesAfterSocketError ==
  /\ [](tpc \in {"recv_lock", "recv"} => ~head_error)
  /\ [](tpc \in {"init_lock", "init_body", "init_flag"} => head_error)
  /\ [][(tpc = "init_flag" /\ tpc' = "head") =>
          /\ pending = InitOk => (~socket_error' /\ sock = "bound")
          /\ pending = InitFailed => socket_error']_vars
  /\ ((running /\ socket_error) ~> ReinitialisedOrStopped)

\* C13 happens: after snapshots were received, socket_error became true and
\* the thread has reinitialised the socket with success
C13_Witness ==
  /\ tpc = "init_flag"
  /\ pending = InitOk
  /\ running
  /\ latest_data.fmt = "object"
  /\ consecutive_errors = 0

\* C14 as stated: the receive loop sets socket_error only after
\* max_consecutive_errors consecutive failures of the receive call with no
\* successful receive in between, and a datagram that was received never
\* contributes to the error count.
C14_OnlyReceiveFailuresCount ==
  [][ProcessStep =>
        /\ (socket_error' /\ ~socket_error) => fail_streak + 1 >= max_consecutive_errors
        /\ IsDatagram(pending) => consecutive_errors' = 0]_vars

\* C15: at the head of every iteration consecutive_errors is between 0 and
\* 4; a successful receive resets it to 0, each exception other than a
\* timeout increases it by one, reaching 5 resets it to 0, and a timeout
\* leaves it unchanged; nothing else changes it.
C15_CounterStaysBelowThreshold ==
  /\ [](tpc = "head" => consecutive_errors \in 0..(max_consecutive_errors - 1))
  /\ [][IF ProcessStep
        THEN LET base == IF IsDatagram(pending) THEN 0 ELSE consecutive_errors
             IN  consecutive_errors' =
                   IF ~RaisedInIteration(pending) THEN base
                   ELSE IF base + 1 = max_consecutive_errors THEN 0 ELSE base + 1
        ELSE UNCHANGED consecutive_errors]_vars

\* C15 happens: four errors were counted and the last receive timed out
C15_Witness ==
  /\ tpc = "head"
  /\ consecutive_errors = max_consecutive_errors - 1
  /\ pending = Timeout

\* C16: the socket is closed or replaced only while socket_lock is held (by
\* initialize_socket in the receiver thread, by cleanup in the main thread),
\* and recvfrom is called only while the receiver thread holds the lock;
\* hence the socket is never closed or replaced while a recvfrom is in
\* progress.
C16_SocketChangesOnlyUnderLock ==
  /\ [](tpc \in {"recv", "init_body", "init_flag"} => socket_lock = "receiver")
  /\ [](mpc = "close" => socket_lock = "main")
  /\ [][sock' # sock =>
          /\ tpc # "recv"
          /\ \/ socket_lock = "receiver" /\ tpc = "init_body"
             \/ socket_lock = "main" /\ mpc = "close"]_vars

\* C16 happens: cleanup waits for the lock while a recvfrom is in progress
C16_Witness ==
  /\ mpc = "lock"
  /\ tpc = "recv"
  /\ socket_lock = "receiver"
  /\ sock = "bound"

\* C17 as stated: after cleanup has returned the visualizer holds no open
\* socket, and none is opened or bound afterwards, whatever the receiver
\* thread does.
C17_NoSocketAfterCleanup == mpc = "done" => sock \notin {"bound", "unbound"}

\* C18: once cleanup has set running to false, the receiver thread's loop
\* ends: a recvfrom is only ever called on a socket with a timeout (or
\* raises at once), and from every state the thread reaches the exit of
\* its loop.
C18_ReceiverThreadTerminates ==
  /\ [](tpc = "recv" => sock \in {"bound", "None"})
  /\ (~running ~> tpc = "exit")

\* C18 happens: the thread found the socket gone after cleanup, handled
\* the error and left its loop
C18_Witness ==
  /\ tpc = "exit"
  /\ mpc = "done"
  /\ pending = NoSocket
  /\ consecutive_errors > 0

\* C19 as stated: on every exit path of get_controller_info (Ctrl+C, an
\* exception inside the loop or during setup, a failure of the SDK
\* initialisation) the UDP socket is closed if it was opened and the SDK
\* shutdown is called.
C19_SocketClosedAndSdkShutDown ==
  spc \in {"done", "crashed"} => (udp_socket # "open" /\ vr = "shutdown")

\* C20: a failure while encoding or sending a snapshot does not stop the
\* sender: the error is reported and the iteration goes on to its sleep
\* with the socket and the SDK as they were, the loop goes on to the next
\* poll with the same open socket, and every iteration that reaches the
\* send step with the socket open makes an attempt.
C20_SendFailureDoesNotStopSender ==
  /\ [](sendError => spc \in {"sleep", "finally", "done"})
  /\ [][(spc = "send" /\ sendError') =>
          (spc' = "sleep" /\ UNCHANGED <<udp_socket, vr, target_ip, target_port>>)]_vars
  /\ [][(spc = "sleep" /\ sendError /\ spc' \notin {"sleep", "finally"}) =>
          (spc' = "poll" /\ udp_socket' = "open" /\ TargetConfigured')]_vars
  /\ [][(spc = "send" /\ spc' = "sleep" /\ udp_socket = "open" /\ TargetConfigured) =>
          sendAttempts' = sendAttempts + 1]_vars

\* C20 happens: no datagram has left although the second iteration has made
\* its attempt, so the first attempt failed and the sender went on
C20_Witness ==
  /\ iter = 2
  /\ spc = "sleep"
  /\ TargetConfigured
  /\ udp_socket = "open"
  /\ sendAttempts = 1
  /\ wire = NoDatagram

-----------------------------------------------------------------------------
(* Properties of what a snapshot changes and what the display reads *)

\* the step processed a snapshot with update_controller_data
SnapshotProcessed == last_update_time' = last_update_time + 1

\* the entry of the hand in the snapshot the step processed
ProcessedEntry(h) == latest_data'.doc[h]

\* the entry is marked tracked
MarkedTracked(entry) == "tracked" \in DOMAIN entry /\ entry.tracked

\* the entry holds a position with x, y and z
CompletePosition(entry) ==
  "position" \in DOMAIN entry /\ {"x", "y", "z"} \subseteq DOMAIN entry.position

\* the entry holds a rotation with roll, pitch and yaw
CompleteRotation(entry) ==
  "rotation" \in DOMAIN entry /\ {"roll", "pitch", "yaw"} \subseteq DOMAIN entry.rotation

\* the position and the trails of the hand
PositionAndTrails(c) == <<c.position, c.trail_x, c.trail_y, c.trail_z>>

\* C21: a step changes a hand's position or trails only if it processed a
\* snapshot whose entry for the hand is tracked and has a position with x, y
\* and z; it changes min/max only if it processed such an entry for some
\* hand; it changes the rotation only if the entry is tracked and has a
\* rotation with roll, pitch and yaw; and the tracked flag and the buttons
\* of a processed entry are taken over whether or not it is tracked.
C21_UntrackedOrIncompleteKeepsPose ==
  /\ [][\A h \in Hands :
          /\ PositionAndTrails(ctl'[h]) # PositionAndTrails(ctl[h]) =>
                /\ SnapshotProcessed
                /\ h \in DOMAIN latest_data'.doc
                /\ MarkedTracked(ProcessedEntry(h))
                /\ CompletePosition(ProcessedEntry(h))
          /\ ctl'[h].rotation # ctl[h].rotation =>
                /\ SnapshotProcessed
                /\ h \in DOMAIN latest_data'.doc
                /\ MarkedTracked(ProcessedEntry(h))
                /\ CompleteRotation(ProcessedEntry(h))]_vars
  /\ [][scale' # scale =>
          /\ SnapshotProcessed
          /\ \E h \in Hands \cap DOMAIN latest_data'.doc :
                MarkedTracked(ProcessedEntry(h)) /\ CompletePosition(ProcessedEntry(h))]_vars
  /\ [][SnapshotProcessed =>
          \A h \in Hands \cap DOMAIN latest_data'.doc :
            /\ ctl'[h].tracked = MarkedTracked(ProcessedEntry(h))
            /\ "buttons" \in DOMAIN ProcessedEntry(h) =>
                  ctl'[h].buttons = ProcessedEntry(h).buttons]_vars

\* C21 happens: the left hand holds the position, trail and rotation of an
\* earlier tracked entry after an entry that is not tracked, with a complete
\* position, a complete rotation and buttons, was processed: the flag and
\* the buttons are those of the later entry
C21_Witness ==
  /\ latest_data.fmt = "object"
  /\ "left" \in DOMAIN latest_data.doc
  /\ ~MarkedTracked(latest_data.doc["left"])
  /\ CompletePosition(latest_data.doc["left"])
  /\ CompleteRotation(latest_data.doc["left"])
  /\ ctl["left"].position = <<1, 2, -1>>
  /\ ctl["left"].rotation = <<0, 0, 90>>
  /\ ctl["left"].trail_x = <<1>>
  /\ scale.min_x = 0
  /\ ~ctl["left"].tracked
  /\ ctl["left"].buttons = [grip |-> JBool(TRUE)]

\* the snapshot holding nothing but the entry of the hand
EntryAlone(doc, h) == [g \in {h} |-> doc[g]]

\* C22: when a snapshot without an entry for a hand is processed, every
\* field of that hand (tracked flag, position, rotation, buttons, trigger
\* state, trails) is unchanged; and a hand with an entry gets the fields
\* that processing its entry alone gives it, whatever the entry of the
\* other hand is.
C22_HandsAreIndependent ==
  [][SnapshotProcessed =>
       \A h \in Hands :
         IF h \in DOMAIN latest_data'.doc
         THEN ctl'[h] = update_controller_data(EntryAlone(latest_data'.doc, h), ctl, scale).ctl[h]
         ELSE ctl'[h] = ctl[h]]_vars

\* C22 happens: the latest snapshot has an entry for the left hand only and
\* made it tracked with its trigger pressed, while the right hand holds the
\* position, the trail and the released trigger an earlier snapshot gave it
C22_Witness ==
  /\ latest_data.fmt = "object"
  /\ DOMAIN latest_data.doc = {"left", "timestamp"}
  /\ ctl["left"].tracked
  /\ ctl["left"].trigger_pressed
  /\ ctl["right"].tracked
  /\ ctl["right"].position = <<-3, -1, 2>>
  /\ ctl["right"].trail_x = <<-3>>
  /\ ~ctl["right"].trigger_pressed

\* C23: extract_rotation_euler applied to the matrix that
\* euler_to_rotation_matrix builds of (roll, pitch, yaw) returns
\* (roll, pitch, yaw) for every roll and yaw in (-180, 180] and pitch in
\* (-90, 90), and the pitch it returns lies in [-90, 90] for every matrix.
C23_EulerRoundTrip ==
  epc = "euler" =>
    /\ extracted[2] >= -90 /\ extracted[2] <= 90
    /\ ( /\ euler_angles[1] > -180 /\ euler_angles[1] <= 180
         /\ euler_angles[2] > -90 /\ euler_angles[2] < 90
         /\ euler_angles[3] > -180 /\ euler_angles[3] <= 180 ) =>
          extracted = euler_angles

\* C23 happens: angles in three different quadrants, with roll and yaw
\* beyond a right angle, went through both conversions
C23_Witness ==
  /\ epc = "euler"
  /\ euler_angles = <<-150, 75, 180>>
  /\ R[3][1] = -Sin(75)
  /\ extracted = <<-150, 75, 180>>

\* C24 as stated: the tracked flag, position, rotation and trigger state
\* that update_plot or update_terminal reads for a hand are those the hand
\* has after some snapshot was applied in full (or before the first one): in
\* no interleaving with the receiver thread does the display read a snapshot
\* applied in part.
C24_DisplayReadsWholeSnapshots ==
  observed.by # "none" => \A h \in Hands : observed[h] \in whole[h]

\* a tracked position that differs from the origin has been recorded
RecordedOffOrigin ==
  \E h \in Hands : \E i \in 1..Len(Accepted(h)) :
    LET pos == Accepted(h)[i].position
    IN  pos.x # 0 \/ pos.y # 0 \/ pos.z # 0

\* C25 as stated: a frame drawn with auto_scale on, after a tracked position
\* that differs from the origin in any coordinate was recorded, has the
\* data-driven limits; the fixed limits are set only with auto_scale off or
\* with no such position recorded.
C25_AutoScaleOnceDataRecorded ==
  [][update_plot =>
       /\ (auto_scale /\ RecordedOffOrigin) => limits'.mode = "auto"
       /\ limits'.mode = "fixed" => (~auto_scale \/ ~RecordedOffOrigin)]_vars

=============================================================================
